---- MODULE Spec2Model ----
(***************************************************************************)
(* LiftCare backend: the access guard (Auth/middle.js), the auth routes    *)
(* (Auth/Auth.js) and the role-scoped resource handlers                    *)
(* (Routes/Contracts.js, Routes/Maintenance.js) over the relational store. *)
(*                                                                         *)
(* One action is one HTTP request handled from the first middleware to the *)
(* response.  The response, with the request's header and the decoded      *)
(* claims, is kept in `last`.  Result sets are sets of rows: ORDER BY is   *)
(* not represented.                                                        *)
(***************************************************************************)
EXTENDS Integers, FiniteSets, Sequences, TLC

VARIABLES
    db,        \* the relational store: one set of rows per table
    autoinc,   \* the AUTO_INCREMENT counter of each table, and Date.now() in ms
    now,       \* wall clock, in hours
    tokens,    \* tokens the clients hold
    last,      \* the last request and its response
    awaiting   \* handlers suspended at an await between two queries

storeVars == <<db, autoinc>>
vars == <<storeVars, now, tokens, last, awaiting>>

-----------------------------------------------------------------------------
(* Bounds of the model *)

MaxUsers == 2        \* registered identities besides the seeded admin
MaxTokens == 2       \* tokens the clients keep
MaxClock == 12       \* hours the clock runs
TickHours == 4       \* hours between two looks at the clock
MaxRows == 1         \* rows the requests create per table
MaxJobs == 2         \* maintenance jobs and technician records
MaxInFlight == 2     \* requests the server handles at the same time
MaxNotifications == 3 \* state notifications the updates insert

-----------------------------------------------------------------------------
(* JavaScript values *)

\* null and undefined, among numbers (ids are positive)
Null == -1
Undefined == -2

\* !x is false for a number: not 0, null or undefined
TruthyNum(x) == x \notin {0, Null, Undefined}

\* !x is false for a string: not ""
TruthyStr(s) == s # ""

\* x || d
OrElse(x, d) == IF TruthyNum(x) THEN x ELSE d

-----------------------------------------------------------------------------
(* Token service *)

JWT_SECRET == "JWT_SECRET"

ExpiresInHours == 8

NoUser == [id |-> 0, email |-> "", name |-> "", role |-> "", customer_id |-> Undefined]

\* the token of an empty credential ("Bearer " followed by nothing)
EmptyToken == [kind |-> "empty", payload |-> NoUser, exp |-> 0, key |-> ""]

\* a string that is no JWT
GarbageToken == [kind |-> "garbage", payload |-> NoUser, exp |-> 0, key |-> ""]

buildUserPayload(row) ==
    [id |-> row.id, email |-> row.email, name |-> row.name, role |-> row.role,
     customer_id |-> IF row.customer_id = Undefined THEN Null ELSE row.customer_id]

\* jwt.sign(payload, JWT_SECRET, {expiresIn: "8h"}) at time t
signAccessTokenAt(payload, t) ==
    [kind |-> "jwt", payload |-> payload, exp |-> t + ExpiresInHours, key |-> JWT_SECRET]

signAccessToken(payload) == signAccessTokenAt(payload, now)

\* jwt.verify(token, JWT_SECRET) does not throw
\* a verification that reads the signature and not exp
jwtVerifyBadExpiry(token) ==
    /\ token.kind = "jwt"
    /\ token.key = JWT_SECRET

jwtVerify(token) ==
    /\ token.kind = "jwt"
    /\ token.key = JWT_SECRET
    /\ now < token.exp

\* bcrypt.hash(password, 10) and bcrypt.compare(password, hash)
bcryptHash(password) == <<"$2a$10$", password>>

\* a comparison that accepts every password
bcryptCompareAny(password, hash) == TRUE

bcryptCompare(password, hash) == hash = bcryptHash(password)

-----------------------------------------------------------------------------
(* Access guard *)

\* The Authorization header: scheme is its first seven characters when it has a
\* scheme, cred the rest.  An absent header reads as "".
NoHeader == [scheme |-> "", cred |-> EmptyToken]

Bearer(token) == [scheme |-> "Bearer ", cred |-> token]

\* h.startsWith("Bearer ") ? h.slice(7) : null, then !token
\* a header test that takes any non-empty header for a token
HasTokenLoose(h) == h.cred.kind # "empty"

HasToken(h) == h.scheme = "Bearer " /\ h.cred.kind # "empty"

\* an authRequired that decodes the token without jwt.verify
authRequiredNoVerify(h) ==
    IF ~HasToken(h)
    THEN [ok |-> FALSE, status |-> 401, message |-> "Missing token", user |-> NoUser]
    ELSE [ok |-> TRUE, status |-> 200, message |-> "", user |-> h.cred.payload]

authRequired(h) ==
    IF ~HasToken(h)
    THEN [ok |-> FALSE, status |-> 401, message |-> "Missing token", user |-> NoUser]
    ELSE IF jwtVerify(h.cred)
         THEN [ok |-> TRUE, status |-> 200, message |-> "", user |-> h.cred.payload]
         ELSE [ok |-> FALSE, status |-> 401, message |-> "Invalid or expired token",
               user |-> NoUser]

\* roleRequired(roles): roles is one role or an array of roles
One(role) == [isArray |-> FALSE, one |-> role, many |-> <<>>]
Many(roles) == [isArray |-> TRUE, one |-> "", many |-> roles]
NoRoleGuard == [isArray |-> FALSE, one |-> "*", many |-> <<>>]

Allowed(roles) == IF roles.isArray THEN roles.many ELSE <<roles.one>>

Includes(seq, x) == \E i \in DOMAIN seq : seq[i] = x

\* a role guard that looks at req.user and not at the allow-list
roleRequiredAuthenticatedOnly(roles, user) ==
    IF user = NoUser
    THEN [ok |-> FALSE, status |-> 401, message |-> "Not authenticated"]
    ELSE [ok |-> TRUE, status |-> 200, message |-> ""]

roleRequired(roles, user) ==
    IF user = NoUser
    THEN [ok |-> FALSE, status |-> 401, message |-> "Not authenticated"]
    ELSE IF ~Includes(Allowed(roles), user.role)
         THEN [ok |-> FALSE, status |-> 403, message |-> "Forbidden: insufficient role"]
         ELSE [ok |-> TRUE, status |-> 200, message |-> ""]

\* The middleware chain of a route: authRequired, then roleRequired(roles) when
\* the route registers one.
Guard(h, roles) ==
    LET a == authRequired(h) IN
    IF ~a.ok THEN a
    ELSE IF roles = NoRoleGuard THEN a
         ELSE LET r == roleRequired(roles, a.user) IN
              [ok |-> r.ok, status |-> r.status, message |-> r.message, user |-> a.user]

-----------------------------------------------------------------------------
(* Responses. A message the source writes in Thai is given here in English; *)
(* the messages of the access guard are verbatim.                          *)

Respond(route, h, user, ran, queries, status, message, rows, token) ==
    last' = [route |-> route, hdr |-> h, user |-> user, ran |-> ran,
             queries |-> queries, status |-> status, message |-> message,
             rows |-> rows, token |-> token, at |-> now]

\* the guard answered: the handler is not called
Reject(route, h, g) ==
    /\ Respond(route, h, g.user, FALSE, 0, g.status, g.message, {}, EmptyToken)
    /\ UNCHANGED storeVars

\* the handler answered without writing
Answer(route, h, user, queries, status, message, rows) ==
    /\ Respond(route, h, user, TRUE, queries, status, message, rows, EmptyToken)
    /\ UNCHANGED storeVars

-----------------------------------------------------------------------------
(* Auth routes *)

\* a role check that stores the role the request asks for
ValidRoleAsRequested(role) == role

\* validRole: "technician" if and only if asked for, "customer" otherwise
ValidRole(role) == IF role = "technician" THEN "technician" ELSE "customer"

\* an email lookup that finds no one
UsersByEmailNone(email) == {}

\* SELECT id FROM users WHERE email = ?
UsersByEmail(email) == {u \in db.users : u.email = email}

\* POST /auth/register
Register(body) ==
    LET route == "POST /auth/register" IN
    /\ UNCHANGED <<now, tokens, awaiting>>
    /\ IF ~TruthyStr(body.email) \/ ~TruthyStr(body.password) \/ ~TruthyStr(body.name)
       THEN /\ Respond(route, NoHeader, NoUser, TRUE, 0, 400,
                       "email, password, name are required", {}, EmptyToken)
            /\ UNCHANGED storeVars
       ELSE LET validRole == ValidRole(body.role)
                found == UsersByEmail(body.email)
            IN  IF found # {}
                THEN /\ Respond(route, NoHeader, NoUser, TRUE, 1, 409,
                                "Email already in use", {}, EmptyToken)
                     /\ UNCHANGED storeVars
                ELSE LET finalCustomerId == IF validRole = "technician" THEN Null
                                            ELSE OrElse(body.customerId, Null)
                         row == [id |-> autoinc.users, email |-> body.email,
                                 password_hash |-> bcryptHash(body.password),
                                 name |-> body.name, role |-> validRole,
                                 customer_id |-> finalCustomerId]
                         userPayload == [id |-> row.id, email |-> row.email,
                                         name |-> row.name, role |-> validRole,
                                         customer_id |-> finalCustomerId]
                     IN  /\ db' = [db EXCEPT !.users = @ \cup {row}]
                         /\ autoinc' = [autoinc EXCEPT !.users = @ + 1]
                         /\ Respond(route, NoHeader, NoUser, TRUE, 2, 201, "",
                                    {userPayload}, signAccessToken(userPayload))

\* POST /auth/login
Login(body) ==
    LET route == "POST /auth/login" IN
    /\ UNCHANGED <<storeVars, now, tokens, awaiting>>
    /\ IF ~TruthyStr(body.email) \/ ~TruthyStr(body.password)
       THEN Respond(route, NoHeader, NoUser, TRUE, 0, 400,
                    "email and password are required", {}, EmptyToken)
       ELSE LET found == {u \in db.users : u.email = body.email} IN
            IF found = {}
            THEN Respond(route, NoHeader, NoUser, TRUE, 1, 401,
                         "Invalid credentials", {}, EmptyToken)
            ELSE \E userRow \in found :
                 IF ~bcryptCompare(body.password, userRow.password_hash)
                 THEN Respond(route, NoHeader, NoUser, TRUE, 1, 401,
                              "Invalid credentials", {}, EmptyToken)
                 ELSE LET own == OrElse(userRow.customer_id, Null)
                          lookup == ~TruthyNum(own) /\ userRow.role = "customer"
                          byMail == {c \in db.customers : c.contact_email = body.email}
                      IN  \E customer_id \in
                              (IF lookup /\ byMail # {} THEN {c.id : c \in byMail}
                               ELSE {own}) :
                          LET tokenPayload ==
                                  [id |-> userRow.id, email |-> userRow.email,
                                   name |-> userRow.name, role |-> userRow.role,
                                   customer_id |-> IF TruthyNum(customer_id)
                                                   THEN customer_id ELSE Undefined]
                          IN  Respond(route, NoHeader, NoUser, TRUE,
                                      IF lookup THEN 2 ELSE 1, 200, "",
                                      {tokenPayload}, signAccessToken(tokenPayload))

\* GET /auth/me
Me(h) ==
    LET route == "GET /auth/me"
        g == Guard(h, NoRoleGuard)
    IN  /\ UNCHANGED <<now, tokens, awaiting>>
        /\ IF ~g.ok THEN Reject(route, h, g)
           ELSE Answer(route, h, g.user, 0, 200, "", {g.user})

\* POST /auth/change-password
MinPasswordLength == 8

ChangePassword(h, body) ==
    LET route == "POST /auth/change-password"
        g == Guard(h, NoRoleGuard)
    IN  /\ UNCHANGED <<now, tokens, awaiting>>
        /\ IF ~g.ok THEN Reject(route, h, g)
           ELSE IF ~TruthyStr(body.currentPassword) \/ ~TruthyStr(body.newPassword)
           THEN Answer(route, h, g.user, 0, 400, "current and new password required", {})
           ELSE IF Len(body.newPassword) < MinPasswordLength
           THEN Answer(route, h, g.user, 0, 400, "new password too short", {})
           ELSE LET rows == {u \in db.users : u.id = g.user.id} IN
                IF rows = {}
                THEN Answer(route, h, g.user, 1, 404, "user not found", {})
                ELSE \E row \in rows :
                     IF ~bcryptCompare(body.currentPassword, row.password_hash)
                     THEN Answer(route, h, g.user, 1, 401, "current password is wrong", {})
                     ELSE /\ db' = [db EXCEPT !.users = (@ \ {row}) \cup
                                 {[row EXCEPT !.password_hash = bcryptHash(body.newPassword)]}]
                          /\ UNCHANGED autoinc
                          /\ Respond(route, h, g.user, TRUE, 2, 200,
                                     "password changed", {}, EmptyToken)

-----------------------------------------------------------------------------
(* Route registration: the role guard each route declares *)

\* a registration where no route declares a role guard
RouteRolesNone(route) == NoRoleGuard

RouteRoles(route) ==
    CASE route \in {"POST /customers", "POST /buildings", "PUT /buildings/:id",
                    "POST /elevators", "POST /contracts", "POST /quotations",
                    "POST /invoices", "POST /technicians",
                    "PUT /customers/:id", "DELETE /customers/:id",
                    "DELETE /buildings/:id",
                    "PUT /elevators/:id", "DELETE /elevators/:id",
                    "PUT /contracts/:id", "DELETE /contracts/:id",
                    "PUT /quotations/:id", "DELETE /quotations/:id",
                    "PUT /invoices/:id", "DELETE /invoices/:id",
                    "DELETE /maintenance/jobs/:id",
                    "PUT /technician-requests/:id"} -> One("admin")
      [] route \in {"POST /maintenance/plans", "POST /maintenance/jobs",
                    "GET /technicians"} -> Many(<<"admin", "technician">>)
      [] route = "POST /technician-requests" -> One("technician")
      [] OTHER -> NoRoleGuard

RouteGuard(route, h) == Guard(h, RouteRoles(route))

\* the routes registered without authRequired ("" is no request)
PublicRoutes == {"", "POST /auth/register", "POST /auth/login"}

-----------------------------------------------------------------------------
(* SQL *)

\* col = ? : never true of a NULL
SqlEq(col, p) == col \notin {Null, Undefined} /\ p \notin {Null, Undefined} /\ col = p

\* the building an elevator id resolves to through
\* LEFT JOIN elevators e ON x.elevator_id = e.id LEFT JOIN buildings b ON e.building_id = b.id
BuildingsOfElevator(elevator_id) ==
    {b \in db.buildings : \E e \in db.elevators : e.id = elevator_id /\ b.id = e.building_id}

\* WHERE b.customer_id = ? over that join
ElevatorOwnedBy(elevator_id, p) ==
    \E b \in BuildingsOfElevator(elevator_id) : SqlEq(b.customer_id, p)

\* no customer filter at all
ScopeNever(user) == FALSE

\* the customer filter applied only if the token carries a customer_id
ScopeOnlyWithCustomerId(user) == user.role = "customer" /\ TruthyNum(user.customer_id)

\* the customer filter of the listings: role === "customer", customer_id || 0
ScopeByCustomer(user) == user.role = "customer"

CustomerParam(user) == OrElse(user.customer_id, 0)

\* the customer filter of tickets and alerts: role === "customer" && customer_id
ScopeIfCustomerId(user) == user.role = "customer" /\ TruthyNum(user.customer_id)

-----------------------------------------------------------------------------
(* Listings *)

Listing(route, h, rows) ==
    LET g == RouteGuard(route, h) IN
    /\ UNCHANGED <<now, tokens, awaiting>>
    /\ IF ~g.ok THEN Reject(route, h, g)
       ELSE Answer(route, h, g.user, 1, 200, "", rows)

\* req.user as the guard of the route leaves it
Caller(route, h) == RouteGuard(route, h).user

\* GET /contracts
ContractRows(user) ==
    IF ScopeByCustomer(user)
    THEN {r \in db.contracts : SqlEq(r.customer_id, CustomerParam(user))}
    ELSE db.contracts

GetContracts(h) == Listing("GET /contracts", h, ContractRows(Caller("GET /contracts", h)))

\* GET /quotations
QuotationRows(user) ==
    IF ScopeByCustomer(user)
    THEN {r \in db.quotations : SqlEq(r.customer_id, CustomerParam(user))}
    ELSE db.quotations

GetQuotations(h) == Listing("GET /quotations", h, QuotationRows(Caller("GET /quotations", h)))

\* GET /invoices
InvoiceRows(user) ==
    IF ScopeByCustomer(user)
    THEN {r \in db.invoices : SqlEq(r.customer_id, CustomerParam(user))}
    ELSE db.invoices

GetInvoices(h) == Listing("GET /invoices", h, InvoiceRows(Caller("GET /invoices", h)))

\* GET /buildings
BuildingRows(user) ==
    IF ScopeByCustomer(user)
    THEN {b \in db.buildings : SqlEq(b.customer_id, CustomerParam(user))}
    ELSE db.buildings

GetBuildings(h) == Listing("GET /buildings", h, BuildingRows(Caller("GET /buildings", h)))

\* GET /elevators
ElevatorRows(user) ==
    IF ScopeByCustomer(user)
    THEN {e \in db.elevators : ElevatorOwnedBy(e.id, CustomerParam(user))}
    ELSE db.elevators

GetElevators(h) == Listing("GET /elevators", h, ElevatorRows(Caller("GET /elevators", h)))

\* GET /maintenance/plans
PlanRows(user) ==
    IF ScopeByCustomer(user)
    THEN {r \in db.maintenance_plans : ElevatorOwnedBy(r.elevator_id, CustomerParam(user))}
    ELSE db.maintenance_plans

GetPlans(h) == Listing("GET /maintenance/plans", h, PlanRows(Caller("GET /maintenance/plans", h)))

\* GET /maintenance/jobs
\* the jobs query without its technician branch
JobRowsNoTechnicianScope(user) ==
    IF user.role = "customer"
    THEN {r \in db.maintenance_jobs : ElevatorOwnedBy(r.elevator_id, CustomerParam(user))}
    ELSE db.maintenance_jobs

JobRows(user) ==
    IF user.role = "technician"
    THEN {r \in db.maintenance_jobs :
             \E tech \in db.technicians :
                 /\ SqlEq(tech.id, r.technician_id)
                 /\ \E u \in db.users : SqlEq(u.id, tech.user_id) /\ SqlEq(u.id, user.id)}
    ELSE IF user.role = "customer"
    THEN {r \in db.maintenance_jobs : ElevatorOwnedBy(r.elevator_id, CustomerParam(user))}
    ELSE db.maintenance_jobs

GetJobs(h) == Listing("GET /maintenance/jobs", h, JobRows(Caller("GET /maintenance/jobs", h)))

\* GET /tickets
TicketRows(user) ==
    IF ScopeIfCustomerId(user)
    THEN {t \in db.tickets : SqlEq(t.customer_id, user.customer_id)}
    ELSE db.tickets

GetTickets(h) == Listing("GET /tickets", h, TicketRows(Caller("GET /tickets", h)))

\* GET /alerts
AlertRows(user) ==
    LET open == {a \in db.alerts : ~a.resolved} IN
    IF ScopeIfCustomerId(user)
    THEN {a \in open : \E e \in db.elevators :
                           e.id = a.elevator_id /\ SqlEq(e.customer_id, user.customer_id)}
    ELSE open

GetAlerts(h) == Listing("GET /alerts", h, AlertRows(Caller("GET /alerts", h)))

-----------------------------------------------------------------------------
(* Writes *)

\* the handler wrote: db and autoinc are set by the caller
Written(route, h, user, queries, status, message, rows) ==
    Respond(route, h, user, TRUE, queries, status, message, rows, EmptyToken)

\* a catch that passes the store's error text on
InternalErrorDetail(route, h, user, queries) ==
    Answer(route, h, user, queries, 500, "ER_DUP_ENTRY: Duplicate entry for key PRIMARY", {})

\* a store error caught by the handler's catch
InternalError(route, h, user, queries) ==
    Answer(route, h, user, queries, 500, "Internal server error", {})

\* POST /customers; a contact_email of "" is NULL
PostCustomers(h, body) ==
    LET route == "POST /customers"
        g == RouteGuard(route, h)
    IN  /\ UNCHANGED <<now, tokens, awaiting>>
        /\ IF ~g.ok THEN Reject(route, h, g)
           ELSE IF ~TruthyStr(body.name) \/ ~TruthyStr(body.business_type)
           THEN Answer(route, h, g.user, 0, 400, "name and business_type are required", {})
           ELSE LET row == [id |-> autoinc.customers, name |-> body.name,
                            contact_email |-> body.contact_email]
                IN  /\ db' = [db EXCEPT !.customers = @ \cup {row}]
                    /\ autoinc' = [autoinc EXCEPT !.customers = @ + 1]
                    /\ Written(route, h, g.user, 2, 201, "", {row})

\* POST /buildings
PostBuildings(h, body) ==
    LET route == "POST /buildings"
        g == RouteGuard(route, h)
    IN  /\ UNCHANGED <<now, tokens, awaiting>>
        /\ IF ~g.ok THEN Reject(route, h, g)
           ELSE IF ~TruthyNum(body.customer_id) \/ ~TruthyStr(body.name)
           THEN Answer(route, h, g.user, 0, 400, "customer_id and name are required", {})
           ELSE LET row == [id |-> autoinc.buildings, customer_id |-> body.customer_id,
                            name |-> body.name]
                IN  /\ db' = [db EXCEPT !.buildings = @ \cup {row}]
                    /\ autoinc' = [autoinc EXCEPT !.buildings = @ + 1]
                    /\ Written(route, h, g.user, 2, 201, "", {row})

\* PUT /buildings/:id
PutBuildings(h, id, body) ==
    LET route == "PUT /buildings/:id"
        g == RouteGuard(route, h)
    IN  /\ UNCHANGED <<now, tokens, awaiting>>
        /\ IF ~g.ok THEN Reject(route, h, g)
           ELSE IF ~TruthyNum(body.customer_id) \/ ~TruthyStr(body.name)
           THEN Answer(route, h, g.user, 0, 400, "customer_id and name are required", {})
           ELSE LET matched == {b \in db.buildings : b.id = id}
                    row == [id |-> id, customer_id |-> body.customer_id, name |-> body.name]
                IN  IF matched = {}
                    THEN Answer(route, h, g.user, 1, 404, "Building not found", {})
                    ELSE /\ db' = [db EXCEPT !.buildings = (@ \ matched) \cup {row}]
                         /\ UNCHANGED autoinc
                         /\ Written(route, h, g.user, 2, 200, "", {row})

\* POST /elevators; elevators.id is the primary key, elevators.customer_id is
\* a column no statement writes
AllowedStates == <<"normal", "fault", "in_maintenance", "waiting_maintenance",
                   "waiting_quotation">>

\* a state stored as the request gives it
SafeStateAsGiven(state) == state

\* allowedStates.includes(state) ? state : "normal"
SafeState(state) == IF Includes(AllowedStates, state) THEN state ELSE "normal"

PostElevators(h, body) ==
    LET route == "POST /elevators"
        g == RouteGuard(route, h)
    IN  /\ UNCHANGED <<now, tokens, awaiting>>
        /\ IF ~g.ok THEN Reject(route, h, g)
           ELSE IF ~TruthyStr(body.id) \/ ~TruthyStr(body.name) \/ ~TruthyNum(body.building_id)
           THEN Answer(route, h, g.user, 0, 400, "id, name and building_id are required", {})
           ELSE LET row == [id |-> body.id, name |-> body.name,
                            building_id |-> body.building_id,
                            state |-> SafeState(body.state), customer_id |-> Null]
                IN  IF \E e \in db.elevators : e.id = body.id
                    THEN InternalError(route, h, g.user, 1)
                    ELSE /\ db' = [db EXCEPT !.elevators = @ \cup {row}]
                         /\ UNCHANGED autoinc
                         /\ Written(route, h, g.user, 2, 201, "", {row})

\* POST /contracts
PostContracts(h, body) ==
    LET route == "POST /contracts"
        g == RouteGuard(route, h)
    IN  /\ UNCHANGED <<now, tokens, awaiting>>
        /\ IF ~g.ok THEN Reject(route, h, g)
           ELSE IF \/ ~TruthyNum(body.customer_id) \/ ~TruthyStr(body.contract_code)
                   \/ ~TruthyStr(body.contract_type) \/ ~TruthyStr(body.start_date)
                   \/ ~TruthyStr(body.end_date)
           THEN Answer(route, h, g.user, 0, 400, "Missing required fields", {})
           ELSE LET row == [id |-> autoinc.contracts, customer_id |-> body.customer_id,
                            contract_code |-> body.contract_code]
                IN  /\ db' = [db EXCEPT !.contracts = @ \cup {row}]
                    /\ autoinc' = [autoinc EXCEPT !.contracts = @ + 1]
                    /\ Written(route, h, g.user, 2, 201, "", {row})

\* POST /quotations
PostQuotations(h, body) ==
    LET route == "POST /quotations"
        g == RouteGuard(route, h)
    IN  /\ UNCHANGED <<now, tokens, awaiting>>
        /\ IF ~g.ok THEN Reject(route, h, g)
           ELSE IF ~TruthyNum(body.customer_id)
           THEN Answer(route, h, g.user, 0, 400, "customer_id is required", {})
           ELSE LET row == [id |-> autoinc.quotations, customer_id |-> body.customer_id]
                IN  /\ db' = [db EXCEPT !.quotations = @ \cup {row}]
                    /\ autoinc' = [autoinc EXCEPT !.quotations = @ + 1]
                    /\ Written(route, h, g.user, 2, 201, "", {row})

\* POST /invoices
PostInvoices(h, body) ==
    LET route == "POST /invoices"
        g == RouteGuard(route, h)
    IN  /\ UNCHANGED <<now, tokens, awaiting>>
        /\ IF ~g.ok THEN Reject(route, h, g)
           ELSE IF ~TruthyNum(body.customer_id)
           THEN Answer(route, h, g.user, 0, 400, "customer_id is required", {})
           ELSE LET row == [id |-> autoinc.invoices, customer_id |-> body.customer_id]
                IN  /\ db' = [db EXCEPT !.invoices = @ \cup {row}]
                    /\ autoinc' = [autoinc EXCEPT !.invoices = @ + 1]
                    /\ Written(route, h, g.user, 2, 201, "", {row})

\* POST /maintenance/plans
PostPlans(h, body) ==
    LET route == "POST /maintenance/plans"
        g == RouteGuard(route, h)
    IN  /\ UNCHANGED <<now, tokens, awaiting>>
        /\ IF ~g.ok THEN Reject(route, h, g)
           ELSE IF \/ ~TruthyStr(body.elevator_id) \/ ~TruthyNum(body.template_id)
                   \/ body.frequency_per_year \in {Null, Undefined}
           THEN Answer(route, h, g.user, 0, 400,
                       "Missing elevator_id, template_id or frequency_per_year", {})
           ELSE LET row == [id |-> autoinc.maintenance_plans,
                            elevator_id |-> body.elevator_id,
                            template_id |-> body.template_id]
                IN  /\ db' = [db EXCEPT !.maintenance_plans = @ \cup {row}]
                    /\ autoinc' = [autoinc EXCEPT !.maintenance_plans = @ + 1]
                    /\ Written(route, h, g.user, 2, 201, "", {row})

\* POST /technicians
PostTechnicians(h, body) ==
    LET route == "POST /technicians"
        g == RouteGuard(route, h)
    IN  /\ UNCHANGED <<now, tokens, awaiting>>
        /\ IF ~g.ok THEN Reject(route, h, g)
           ELSE IF ~TruthyNum(body.user_id)
           THEN Answer(route, h, g.user, 0, 400, "user_id is required", {})
           ELSE LET row == [id |-> autoinc.technicians, user_id |-> body.user_id]
                IN  /\ db' = [db EXCEPT !.technicians = @ \cup {row}]
                    /\ autoinc' = [autoinc EXCEPT !.technicians = @ + 1]
                    /\ Written(route, h, g.user, 2, 201, "", {row})

\* POST /maintenance/jobs
PostJobs(h, body) ==
    LET route == "POST /maintenance/jobs"
        g == RouteGuard(route, h)
    IN  /\ UNCHANGED <<now, tokens, awaiting>>
        /\ IF ~g.ok THEN Reject(route, h, g)
           ELSE IF ~TruthyStr(body.elevator_id) \/ ~TruthyStr(body.job_type)
           THEN Answer(route, h, g.user, 0, 400, "elevator_id and job_type are required", {})
           ELSE LET row == [id |-> autoinc.maintenance_jobs,
                            elevator_id |-> body.elevator_id,
                            technician_id |-> OrElse(body.technician_id, Null),
                            job_type |-> body.job_type]
                IN  /\ db' = [db EXCEPT !.maintenance_jobs = @ \cup {row}]
                    /\ autoinc' = [autoinc EXCEPT !.maintenance_jobs = @ + 1]
                    /\ Written(route, h, g.user, 2, 201, "", {row})

\* PUT /maintenance/jobs/:id; the update that matches a row sends no response
\* (status 0)
PutJobs(h, id, body) ==
    LET route == "PUT /maintenance/jobs/:id"
        g == RouteGuard(route, h)
    IN  /\ UNCHANGED <<now, tokens, awaiting>>
        /\ IF ~g.ok THEN Reject(route, h, g)
           ELSE LET matched == {r \in db.maintenance_jobs : r.id = id}
                    row == [id |-> id, elevator_id |-> body.elevator_id,
                            technician_id |-> OrElse(body.technician_id, Null),
                            job_type |-> body.job_type]
                IN  IF matched = {}
                    THEN Answer(route, h, g.user, 1, 404, "Job not found", {})
                    ELSE /\ db' = [db EXCEPT !.maintenance_jobs = (@ \ matched) \cup {row}]
                         /\ UNCHANGED autoinc
                         /\ Written(route, h, g.user, 1, 0, "", {})

\* POST /tickets; the id is "T-" and Date.now(), tickets.id is the primary key
PostTickets(h, body, ms) ==
    LET route == "POST /tickets"
        g == RouteGuard(route, h)
    IN  /\ UNCHANGED <<now, tokens, awaiting>>
        /\ IF ~g.ok THEN Reject(route, h, g)
           ELSE IF ~TruthyStr(body.elevatorId) \/ ~TruthyStr(body.description)
           THEN Answer(route, h, g.user, 0, 400, "Missing data", {})
           ELSE LET row == [id |-> <<"T-", ms>>, elevator_id |-> body.elevatorId,
                            reporter_id |-> g.user.id,
                            customer_id |-> OrElse(g.user.customer_id, Null)]
                IN  IF \E t \in db.tickets : t.id = row.id
                    THEN /\ Respond(route, h, g.user, TRUE, 1, 500,
                                    "Internal server error", {}, EmptyToken)
                         /\ autoinc' = [autoinc EXCEPT !.ms = ms]
                         /\ UNCHANGED db
                    ELSE /\ db' = [db EXCEPT !.tickets = @ \cup {row}]
                         /\ autoinc' = [autoinc EXCEPT !.ms = ms]
                         /\ Written(route, h, g.user, 2, 201, "Ticket created", {row})

-----------------------------------------------------------------------------
(* Updates and deletions of customers, buildings, elevators, contracts,      *)
(* quotations and invoices                                                   *)

\* UPDATE <table> SET ... WHERE id = ?, 404 when no row matched, then the row
\* is read back
UpdateById(route, table, notFound, h, id, row) ==
    LET g == RouteGuard(route, h)
        matched == {r \in db[table] : r.id = id}
    IN  IF matched = {}
        THEN Answer(route, h, g.user, 1, 404, notFound, {})
        ELSE /\ db' = [db EXCEPT ![table] = (@ \ matched) \cup {row}]
             /\ UNCHANGED autoinc
             /\ Written(route, h, g.user, 2, 200, "", {row})

\* DELETE FROM <table> WHERE id = ?, 404 when no row matched
DeleteById(route, table, notFound, deleted, h, id) ==
    LET g == RouteGuard(route, h)
        matched == {r \in db[table] : r.id = id}
    IN  /\ UNCHANGED <<now, tokens, awaiting>>
        /\ IF ~g.ok THEN Reject(route, h, g)
           ELSE IF matched = {}
           THEN Answer(route, h, g.user, 1, 404, notFound, {})
           ELSE /\ db' = [db EXCEPT ![table] = @ \ matched]
                /\ UNCHANGED autoinc
                /\ Written(route, h, g.user, 1, 200, deleted, {})

\* PUT /customers/:id; a contact_email of "" is NULL
PutCustomers(h, id, body) ==
    LET route == "PUT /customers/:id"
        g == RouteGuard(route, h)
    IN  /\ UNCHANGED <<now, tokens, awaiting>>
        /\ IF ~g.ok THEN Reject(route, h, g)
           ELSE IF ~TruthyStr(body.name) \/ ~TruthyStr(body.business_type)
           THEN Answer(route, h, g.user, 0, 400, "name and business_type are required", {})
           ELSE UpdateById(route, "customers", "Customer not found", h, id,
                           [id |-> id, name |-> body.name,
                            contact_email |-> body.contact_email])

\* DELETE /customers/:id
DeleteCustomers(h, id) ==
    DeleteById("DELETE /customers/:id", "customers", "Customer not found",
               "Customer deleted", h, id)

\* DELETE /buildings/:id
DeleteBuildings(h, id) ==
    DeleteById("DELETE /buildings/:id", "buildings", "Building not found",
               "Building deleted", h, id)

\* the literal every state notification's title starts with
TitlePrefix == "elevator state: "

\* title LIKE ? with a pattern that ends in %: the title starts with the prefix
Like(title, prefix) == Len(prefix) <= Len(title) /\ SubSeq(title, 1, Len(prefix)) = prefix

\* the rows of DELETE FROM notifications WHERE user_id = ? AND type =
\* 'elevator_state' AND channel = 'in_app' AND title LIKE `<prefix><id>%`
StaleNotifications(user_id, elevator_id) ==
    {n \in db.notifications :
        /\ n.user_id = user_id /\ n.type = "elevator_state" /\ n.channel = "in_app"
        /\ Like(n.title, TitlePrefix \o elevator_id)}

\* a transition test that looks at the new state only
IsToFaultAlways(prevState, safeState) == safeState = "fault"

IsToFault(prevState, safeState) == prevState = "normal" /\ safeState = "fault"

IsToNormal(prevState, safeState) == prevState = "fault" /\ safeState = "normal"

\* the row of INSERT INTO notifications (user_id, type, channel, title, body)
StateNotification(user_id, elevator_id, isToFault) ==
    [id |-> autoinc.notifications, user_id |-> user_id, type |-> "elevator_state",
     channel |-> "in_app",
     title |-> TitlePrefix \o elevator_id \o
                   (IF isToFault THEN " changed to Fault" ELSE " back to normal")]

\* PUT /elevators/:id; a change between normal and fault replaces the caller's
\* notifications about the elevator
PutElevators(h, id, body) ==
    LET route == "PUT /elevators/:id"
        g == RouteGuard(route, h)
    IN  /\ UNCHANGED <<now, tokens, awaiting>>
        /\ IF ~g.ok THEN Reject(route, h, g)
           ELSE IF ~TruthyStr(body.name) \/ ~TruthyNum(body.building_id)
           THEN Answer(route, h, g.user, 0, 400, "name and building_id are required", {})
           ELSE LET currentRows == {e \in db.elevators : e.id = id} IN
                IF currentRows = {}
                THEN Answer(route, h, g.user, 1, 404, "Elevator not found", {})
                ELSE \E current \in currentRows :
                     LET prevState == current.state
                         safeState == SafeState(body.state)
                         elevator == [current EXCEPT !.name = body.name,
                                                     !.building_id = body.building_id,
                                                     !.state = safeState]
                         isToFault == IsToFault(prevState, safeState)
                         isToNormal == IsToNormal(prevState, safeState)
                         stale == StaleNotifications(g.user.id, elevator.id)
                         note == StateNotification(g.user.id, elevator.id, isToFault)
                     IN  /\ db' = [db EXCEPT
                                     !.elevators = (@ \ currentRows) \cup {elevator},
                                     !.notifications =
                                         IF isToFault \/ isToNormal
                                         THEN (@ \ stale) \cup {note} ELSE @]
                         /\ autoinc' = IF isToFault \/ isToNormal
                                       THEN [autoinc EXCEPT !.notifications = @ + 1]
                                       ELSE autoinc
                         /\ Written(route, h, g.user,
                                    IF isToFault \/ isToNormal THEN 5 ELSE 3,
                                    200, "", {elevator})

\* DELETE /elevators/:id
DeleteElevators(h, id) ==
    DeleteById("DELETE /elevators/:id", "elevators", "Elevator not found",
               "Elevator deleted", h, id)

\* PUT /contracts/:id
PutContracts(h, id, body) ==
    LET route == "PUT /contracts/:id"
        g == RouteGuard(route, h)
    IN  /\ UNCHANGED <<now, tokens, awaiting>>
        /\ IF ~g.ok THEN Reject(route, h, g)
           ELSE IF \/ ~TruthyNum(body.customer_id) \/ ~TruthyStr(body.contract_code)
                   \/ ~TruthyStr(body.contract_type) \/ ~TruthyStr(body.start_date)
                   \/ ~TruthyStr(body.end_date)
           THEN Answer(route, h, g.user, 0, 400, "Missing required fields", {})
           ELSE UpdateById(route, "contracts", "Contract not found", h, id,
                           [id |-> id, customer_id |-> body.customer_id,
                            contract_code |-> body.contract_code])

\* DELETE /contracts/:id
DeleteContracts(h, id) ==
    DeleteById("DELETE /contracts/:id", "contracts", "Contract not found",
               "Contract deleted", h, id)

\* PUT /quotations/:id
PutQuotations(h, id, body) ==
    LET route == "PUT /quotations/:id"
        g == RouteGuard(route, h)
    IN  /\ UNCHANGED <<now, tokens, awaiting>>
        /\ IF ~g.ok THEN Reject(route, h, g)
           ELSE IF ~TruthyNum(body.customer_id) \/ ~TruthyStr(body.quotation_code)
           THEN Answer(route, h, g.user, 0, 400,
                       "quotation_code and customer_id are required", {})
           ELSE UpdateById(route, "quotations", "Quotation not found", h, id,
                           [id |-> id, customer_id |-> body.customer_id])

\* DELETE /quotations/:id
DeleteQuotations(h, id) ==
    DeleteById("DELETE /quotations/:id", "quotations", "Quotation not found",
               "Deleted", h, id)

\* PUT /invoices/:id
PutInvoices(h, id, body) ==
    LET route == "PUT /invoices/:id"
        g == RouteGuard(route, h)
    IN  /\ UNCHANGED <<now, tokens, awaiting>>
        /\ IF ~g.ok THEN Reject(route, h, g)
           ELSE IF ~TruthyNum(body.customer_id) \/ ~TruthyStr(body.invoice_code)
           THEN Answer(route, h, g.user, 0, 400,
                       "invoice_code and customer_id are required", {})
           ELSE UpdateById(route, "invoices", "Invoice not found", h, id,
                           [id |-> id, customer_id |-> body.customer_id])

\* DELETE /invoices/:id
DeleteInvoices(h, id) ==
    DeleteById("DELETE /invoices/:id", "invoices", "Invoice not found",
               "Deleted", h, id)

-----------------------------------------------------------------------------
(* Technician requests *)

\* a lookup of pending requests that finds none
PendingRequestsOfNone(user_id) == {}

\* SELECT id FROM technician_requests WHERE user_id = ? AND status = 'pending'
PendingRequestsOf(user_id) ==
    {r \in db.technician_requests : SqlEq(r.user_id, user_id) /\ r.status = "pending"}

\* a lookup of technician records that finds none
TechniciansOfNone(user_id) == {}

\* SELECT id FROM technicians WHERE user_id = ?
TechniciansOf(user_id) == {t \in db.technicians : SqlEq(t.user_id, user_id)}

\* POST /technician-requests
PostTechnicianRequests(h, body) ==
    LET route == "POST /technician-requests"
        g == RouteGuard(route, h)
    IN  /\ UNCHANGED <<now, tokens, awaiting>>
        /\ IF ~g.ok THEN Reject(route, h, g)
           ELSE IF \/ ~TruthyStr(body.phone) \/ ~TruthyStr(body.specialty)
                   \/ ~TruthyStr(body.address) \/ ~TruthyStr(body.date_of_birth)
                   \/ ~TruthyStr(body.experience) \/ ~TruthyStr(body.education)
           THEN Answer(route, h, g.user, 0, 400, "Missing required fields", {})
           ELSE LET existingRequests == PendingRequestsOf(g.user.id)
                    row == [id |-> autoinc.technician_requests, user_id |-> g.user.id,
                            status |-> "pending", updated_at |-> now]
                IN  IF existingRequests # {}
                    THEN Answer(route, h, g.user, 1, 409,
                                "You already have a pending request. Please wait for admin approval.", {})
                    ELSE /\ db' = [db EXCEPT !.technician_requests = @ \cup {row}]
                         /\ autoinc' = [autoinc EXCEPT !.technician_requests = @ + 1]
                         /\ Written(route, h, g.user, 3, 201, "", {row})

\* a selection without its WHERE clause
RequestsByIdAll(id) == db.technician_requests

\* SELECT * FROM technician_requests WHERE id = ? (and the UPDATE ... WHERE id = ?)
RequestsById(id) == {r \in db.technician_requests : r.id = id}

\* PUT /technician-requests/:id
PutTechnicianRequests(h, id, body) ==
    LET route == "PUT /technician-requests/:id"
        g == RouteGuard(route, h)
    IN  /\ UNCHANGED <<now, tokens, awaiting>>
        /\ IF ~g.ok THEN Reject(route, h, g)
           ELSE IF body.status \notin {"approved", "rejected"}
           THEN Answer(route, h, g.user, 0, 400,
                       "Status must be 'approved' or 'rejected'", {})
           ELSE LET requests == RequestsById(id) IN
                IF requests = {}
                THEN Answer(route, h, g.user, 1, 404, "Request not found", {})
                ELSE \E request \in requests :
                     LET existingTechs == TechniciansOf(request.user_id)
                         insert == body.status = "approved" /\ existingTechs = {}
                         tech == [id |-> autoinc.technicians, user_id |-> request.user_id]
                         updated == [request EXCEPT !.status = body.status, !.updated_at = now]
                     IN  /\ db' = [db EXCEPT
                                     !.technicians = IF insert THEN @ \cup {tech} ELSE @,
                                     !.technician_requests = (@ \ requests) \cup {updated}]
                         /\ autoinc' = IF insert
                                       THEN [autoinc EXCEPT !.technicians = @ + 1]
                                       ELSE autoinc
                         /\ Written(route, h, g.user,
                                    IF body.status = "approved"
                                    THEN (IF insert THEN 5 ELSE 4) ELSE 3,
                                    200, "", {updated})

-----------------------------------------------------------------------------
(* Environment: the clients and the clock *)

\* a client keeps the token of the last response
ClientStore ==
    /\ last.token.kind = "jwt"
    /\ last.token \notin tokens
    /\ Cardinality(tokens) < MaxTokens
    /\ tokens' = tokens \cup {last.token}
    /\ UNCHANGED <<storeVars, now, last, awaiting>>

\* time passes
Tick ==
    /\ now < MaxClock
    /\ now' = now + TickHours
    /\ UNCHANGED <<storeVars, tokens, last, awaiting>>

\* an alert is raised on an elevator: rows of alerts are written outside the
\* routes modelled here
RaiseAlert(elevator_id) ==
    /\ \E e \in db.elevators : e.id = elevator_id
    /\ db' = [db EXCEPT !.alerts = @ \cup {[id |-> autoinc.alerts,
                                            elevator_id |-> elevator_id,
                                            resolved |-> FALSE]}]
    /\ autoinc' = [autoinc EXCEPT !.alerts = @ + 1]
    /\ UNCHANGED <<now, tokens, last, awaiting>>

-----------------------------------------------------------------------------
(* Initial state: the store holds the administrator's identity, which no    *)
(* route can create, and nothing else.                                      *)

AdminRow == [id |-> 1, email |-> "admin@liftcare", password_hash |-> bcryptHash("adminpass"),
             name |-> "Admin", role |-> "admin", customer_id |-> Null]

NoRequest == [route |-> "", hdr |-> NoHeader, user |-> NoUser, ran |-> FALSE,
              queries |-> 0, status |-> 0, message |-> "", rows |-> {},
              token |-> EmptyToken, at |-> 0]

EmptyStore ==
    [users |-> {}, customers |-> {}, buildings |-> {}, elevators |-> {},
     contracts |-> {}, quotations |-> {}, invoices |-> {},
     maintenance_plans |-> {}, maintenance_jobs |-> {}, tickets |-> {},
     technicians |-> {}, technician_requests |-> {}, notifications |-> {},
     alerts |-> {}]

Init ==
    /\ db = [EmptyStore EXCEPT !.users = {AdminRow}]
    /\ autoinc = [users |-> 2, customers |-> 1, buildings |-> 1, contracts |-> 1,
                  quotations |-> 1, invoices |-> 1, maintenance_plans |-> 1,
                  maintenance_jobs |-> 1, technicians |-> 1,
                  technician_requests |-> 1, notifications |-> 1, alerts |-> 1,
                  ms |-> 1]
    /\ now = 0
    /\ tokens = {}
    /\ last = NoRequest
    /\ awaiting = {}

-----------------------------------------------------------------------------
(* Requests the clients send *)

\* a token signed with another key, claiming the administrator's identity
ForgedToken == [kind |-> "jwt", payload |-> buildUserPayload(AdminRow),
                exp |-> MaxClock + ExpiresInHours + TickHours, key |-> "attacker"]

Headers ==
    {NoHeader, Bearer(EmptyToken), Bearer(GarbageToken), Bearer(ForgedToken)}
        \cup {Bearer(t) : t \in tokens}
        \cup {[scheme |-> "Basic ", cred |-> t] : t \in tokens}

DoMe == \E h \in Headers : Me(h)

AdminLogin ==
    \E body \in [email : {AdminRow.email}, password : {"adminpass", "pw1"}] : Login(body)

HeldHeaders == {Bearer(t) : t \in tokens}

-----------------------------------------------------------------------------
(* The access guard in front of routes with and without a role guard *)

AuthRegister ==
    /\ autoinc.users <= MaxUsers + 1
    /\ \E body \in [email : {"a@x", "b@x"}, password : {"pw1"}, name : {"N", ""},
                    role : {"technician", "customer"}, customerId : {Undefined}] :
           Register(body)

AuthPostCustomers ==
    /\ autoinc.customers <= MaxRows
    /\ \E h \in Headers :
           PostCustomers(h, [name |-> "ABC Co", business_type |-> "Commercial",
                             contact_email |-> ""])

AuthPostPlans ==
    /\ autoinc.maintenance_plans <= MaxRows
    /\ \E h \in Headers :
           PostPlans(h, [elevator_id |-> "E1", template_id |-> 1, frequency_per_year |-> 12])

AuthPostTechnicianRequests ==
    /\ autoinc.technician_requests <= MaxRows
    /\ \E h \in Headers :
           PostTechnicianRequests(h, [phone |-> "08", specialty |-> "lift", address |-> "a",
                                      date_of_birth |-> "2000-01-01", experience |-> "5y",
                                      education |-> "BEng"])

AuthPutTechnicianRequests ==
    \E h \in Headers : \E status \in {"approved", "rejected", "pending"} :
        PutTechnicianRequests(h, 1, [status |-> status])

NextAuth ==
    \/ AuthRegister
    \/ AdminLogin
    \/ ClientStore
    \/ DoMe
    \/ AuthPostCustomers
    \/ AuthPostPlans
    \/ AuthPostTechnicianRequests
    \/ AuthPutTechnicianRequests

SpecAuth == Init /\ [][NextAuth]_vars

\* the request of `last` bore a token that register or login issued and that
\* had not expired
BoreValidToken ==
    /\ last.hdr.scheme = "Bearer "
    /\ last.hdr.cred \in tokens
    /\ last.at < last.hdr.cred.exp

RoleGuarded(route) == RouteRoles(route) # NoRoleGuard

RoleAllowed(route, role) == Includes(Allowed(RouteRoles(route)), role)

\* C4: a request to a protected route whose Authorization header is absent or
\* does not start with "Bearer " is answered 401 "Missing token", and the
\* route handler does not run.
C4_MissingToken ==
    (last.route \notin PublicRoutes /\ last.hdr.scheme # "Bearer ") =>
        /\ last.status = 401
        /\ last.message = "Missing token"
        /\ ~last.ran
        /\ last.queries = 0

\* a header that carries a valid token under another scheme is refused
C4_Witness ==
    /\ last.route = "POST /customers"
    /\ last.hdr.scheme = "Basic "
    /\ last.hdr.cred \in tokens
    /\ last.hdr.cred.payload.role = "admin"
    /\ last.status = 401
    /\ last.message = "Missing token"

\* C5: on a route registered with roleRequired(R), R one role or a list of
\* roles, the handler runs only if the authenticated role is a member of R; an
\* authenticated request whose role is not in R is answered 403 and its
\* handler does not run.
C5_RoleGuard ==
    RoleGuarded(last.route) =>
        /\ last.ran => (BoreValidToken /\ RoleAllowed(last.route, last.hdr.cred.payload.role))
        /\ (BoreValidToken /\ ~RoleAllowed(last.route, last.hdr.cred.payload.role)) =>
               (last.status = 403 /\ ~last.ran /\ last.queries = 0)

\* a technician passes a guard that lists admin and technician, and a customer
\* is refused by it
C5_Witness ==
    /\ last.route = "POST /maintenance/plans"
    /\ last.hdr.cred.payload.role = "technician"
    /\ last.ran
    /\ last.status = 201

C5_WitnessForbidden ==
    /\ last.route = "POST /maintenance/plans"
    /\ BoreValidToken
    /\ last.hdr.cred.payload.role = "customer"
    /\ last.status = 403

\* C6: no query is issued and no table changes unless the authentication check
\* and, where the route declares one, the role check have passed: a request the
\* guard answers with 401 or 403 issues no query and leaves the store unchanged,
\* and a request to a protected route that issues a query or changes the store
\* bore a valid token whose role the route admits.
GuardPassed(r) ==
    /\ r.hdr.scheme = "Bearer "
    /\ r.hdr.cred \in tokens
    /\ r.at < r.hdr.cred.exp
    /\ RoleGuarded(r.route) => RoleAllowed(r.route, r.hdr.cred.payload.role)

C6_GuardBeforeStore ==
    [][/\ (last'.status \in {401, 403} /\ ~last'.ran) =>
             (db' = db /\ autoinc' = autoinc /\ last'.queries = 0)
       /\ (last'.route \notin PublicRoutes /\
              (db' # db \/ autoinc' # autoinc \/ last'.queries > 0)) =>
             GuardPassed(last')]_vars

\* a customer's approval of a technician request is refused with 403 while the
\* request stays pending
C6_Witness ==
    /\ last.route = "PUT /technician-requests/:id"
    /\ last.status = 403
    /\ ~last.ran
    /\ \E r \in db.technician_requests : r.status = "pending"

\* C15: approval of a technician request is the sole route to technician
\* capability: an identity passes a role guard that admits technician (here
\* the creation of maintenance plans) only after a technician request of that
\* identity has been approved.
C15_ApprovalBeforeCapability ==
    (/\ last.route = "POST /maintenance/plans"
     /\ last.ran
     /\ last.user.role = "technician") =>
        \E r \in db.technician_requests :
            r.user_id = last.user.id /\ r.status = "approved"

-----------------------------------------------------------------------------
(* Row scoping of the listings: two tenants, one customer identity *)

OwnerIds == {1, 2}

ScopeRegister ==
    /\ autoinc.users <= MaxUsers + 1
    /\ \E body \in [email : {"a@x"}, password : {"pw1"}, name : {"N"},
                    role : {"customer"}, customerId : {Undefined, 1}]
                  \cup [email : {"b@x"}, password : {"pw1"}, name : {"N"},
                        role : {"customer"}, customerId : {2}] :
           Register(body)

ScopePostBuildings ==
    /\ autoinc.buildings <= MaxRows
    /\ \E h \in HeldHeaders : \E c \in OwnerIds :
           PostBuildings(h, [customer_id |-> c, name |-> "Tower"])

ScopePutBuildings ==
    \E h \in HeldHeaders : \E c \in OwnerIds :
        PutBuildings(h, 1, [customer_id |-> c, name |-> "Tower"])

ScopePostElevators ==
    \E h \in HeldHeaders :
        PostElevators(h, [id |-> "E1", name |-> "Lift A", building_id |-> 1,
                          state |-> "normal"])

ScopePostContracts ==
    /\ autoinc.contracts <= MaxRows
    /\ \E h \in HeldHeaders : \E c \in OwnerIds :
           PostContracts(h, [customer_id |-> c, contract_code |-> "CT-1",
                             contract_type |-> "annual", start_date |-> "2025-01-01",
                             end_date |-> "2025-12-31"])

ScopePostTickets ==
    /\ autoinc.ms <= MaxRows
    /\ \E h \in HeldHeaders : \E ms \in {autoinc.ms, autoinc.ms + 1} :
           PostTickets(h, [elevatorId |-> "E1", description |-> "stuck"], ms)

ScopeRaiseAlert ==
    /\ autoinc.alerts <= MaxRows
    /\ RaiseAlert("E1")

ScopeGetBuildings == \E h \in HeldHeaders : GetBuildings(h)
ScopeGetElevators == \E h \in HeldHeaders : GetElevators(h)
ScopeGetContracts == \E h \in HeldHeaders : GetContracts(h)
ScopeGetTickets == \E h \in HeldHeaders : GetTickets(h)
ScopeGetAlerts == \E h \in HeldHeaders : GetAlerts(h)

NextScope ==
    \/ ScopeRegister
    \/ AdminLogin
    \/ ClientStore
    \/ ScopePostBuildings
    \/ ScopePutBuildings
    \/ ScopePostElevators
    \/ ScopePostContracts
    \/ ScopePostTickets
    \/ ScopeRaiseAlert
    \/ ScopeGetBuildings
    \/ ScopeGetElevators
    \/ ScopeGetContracts
    \/ ScopeGetTickets
    \/ ScopeGetAlerts

SpecScope == Init /\ [][NextScope]_vars

\* the request of `last` was a listing answered 200 to a customer-role caller
CustomerListing(routes) ==
    /\ last.route \in routes
    /\ last.status = 200
    /\ last.user.role = "customer"

\* a row of the listing `route` is owned by customer c: by its customer_id
\* column, or for an elevator by the customer_id of its building
OwnedBy(route, row, c) ==
    IF route = "GET /elevators"
    THEN \E b \in db.buildings : b.id = row.building_id /\ b.customer_id = c
    ELSE row.customer_id = c

\* C1: to a customer-role caller whose token carries customer_id = C, the
\* listings of buildings, elevators, tickets and contracts return only rows
\* owned by C, in every reachable state of the store.
C1_CustomerSeesOnlyOwnRows ==
    (/\ CustomerListing({"GET /buildings", "GET /elevators", "GET /tickets",
                        "GET /contracts"})
     /\ TruthyNum(last.user.customer_id)) =>
        \A row \in last.rows : OwnedBy(last.route, row, last.user.customer_id)

\* the store holds an elevator in a building of customer 2, and the listing of
\* elevators answers customer 1 without it
C1_Witness ==
    /\ last.route = "GET /elevators"
    /\ last.status = 200
    /\ last.user.role = "customer"
    /\ last.user.customer_id = 1
    /\ \E e \in db.elevators : \E b \in db.buildings :
           b.id = e.building_id /\ b.customer_id = 2 /\ e \notin last.rows

\* customer 1 is answered with its own building
C1_WitnessOwn ==
    /\ last.route = "GET /buildings"
    /\ last.user.role = "customer"
    /\ last.user.customer_id = 1
    /\ last.rows # {}

\* C3: to a customer-role caller whose token carries no customer_id, the
\* listings of tickets and of alerts still apply the customer filter, so that
\* the response never contains a ticket or an alert belonging to any customer
\* (a ticket with a customer_id, an alert on an elevator of a customer's
\* building).
C3_TicketsAlertsFailClosed ==
    (/\ CustomerListing({"GET /tickets", "GET /alerts"})
     /\ ~TruthyNum(last.user.customer_id)) =>
        \A row \in last.rows :
            IF last.route = "GET /tickets"
            THEN ~TruthyNum(row.customer_id)
            ELSE ~\E b \in BuildingsOfElevator(row.elevator_id) : TruthyNum(b.customer_id)

-----------------------------------------------------------------------------
(* Fail-closed listings: a customer identity without customer_id *)

EmptyRegister ==
    /\ autoinc.users <= MaxUsers + 1
    /\ \E body \in [email : {"a@x"}, password : {"pw1"}, name : {"N"},
                    role : {"customer"}, customerId : {Undefined, 0, 1}] :
           Register(body)

EmptyLogin == \E body \in [email : {"a@x"}, password : {"pw1"}] : Login(body)

EmptyPostBuildings ==
    /\ autoinc.buildings <= MaxRows
    /\ \E h \in HeldHeaders : \E c \in {0, 1} :
           PostBuildings(h, [customer_id |-> c, name |-> "Tower"])

EmptyPostElevators ==
    \E h \in HeldHeaders :
        PostElevators(h, [id |-> "E1", name |-> "Lift A", building_id |-> 1,
                          state |-> "normal"])

EmptyPostContracts ==
    /\ autoinc.contracts <= MaxRows
    /\ \E h \in HeldHeaders :
           PostContracts(h, [customer_id |-> 1, contract_code |-> "CT-1",
                             contract_type |-> "annual", start_date |-> "2025-01-01",
                             end_date |-> "2025-12-31"])

EmptyPostQuotations ==
    /\ autoinc.quotations <= MaxRows
    /\ \E h \in HeldHeaders : PostQuotations(h, [customer_id |-> 1])

EmptyPostInvoices ==
    /\ autoinc.invoices <= MaxRows
    /\ \E h \in HeldHeaders : PostInvoices(h, [customer_id |-> 1])

EmptyPostPlans ==
    /\ autoinc.maintenance_plans <= MaxRows
    /\ \E h \in HeldHeaders :
           PostPlans(h, [elevator_id |-> "E1", template_id |-> 1, frequency_per_year |-> 12])

EmptyPostJobs ==
    /\ autoinc.maintenance_jobs <= MaxRows
    /\ \E h \in HeldHeaders :
           PostJobs(h, [elevator_id |-> "E1", job_type |-> "planned",
                        technician_id |-> Undefined])

EmptyGetBuildings == \E h \in HeldHeaders : GetBuildings(h)
EmptyGetElevators == \E h \in HeldHeaders : GetElevators(h)
EmptyGetContracts == \E h \in HeldHeaders : GetContracts(h)
EmptyGetQuotations == \E h \in HeldHeaders : GetQuotations(h)
EmptyGetInvoices == \E h \in HeldHeaders : GetInvoices(h)
EmptyGetPlans == \E h \in HeldHeaders : GetPlans(h)
EmptyGetJobs == \E h \in HeldHeaders : GetJobs(h)

NextEmpty ==
    \/ EmptyRegister
    \/ EmptyLogin
    \/ AdminLogin
    \/ ClientStore
    \/ EmptyPostBuildings
    \/ EmptyPostElevators
    \/ EmptyPostContracts
    \/ EmptyPostQuotations
    \/ EmptyPostInvoices
    \/ EmptyPostPlans
    \/ EmptyPostJobs
    \/ EmptyGetBuildings
    \/ EmptyGetElevators
    \/ EmptyGetContracts
    \/ EmptyGetQuotations
    \/ EmptyGetInvoices
    \/ EmptyGetPlans
    \/ EmptyGetJobs

SpecEmpty == Init /\ [][NextEmpty]_vars

ScopedListings ==
    {"GET /buildings", "GET /elevators", "GET /contracts", "GET /quotations",
     "GET /invoices", "GET /maintenance/plans", "GET /maintenance/jobs"}

\* the table a listing reads
TableOf(route) ==
    CASE route = "GET /buildings" -> db.buildings
      [] route = "GET /elevators" -> db.elevators
      [] route = "GET /contracts" -> db.contracts
      [] route = "GET /quotations" -> db.quotations
      [] route = "GET /invoices" -> db.invoices
      [] route = "GET /maintenance/plans" -> db.maintenance_plans
      [] route = "GET /maintenance/jobs" -> db.maintenance_jobs
      [] OTHER -> {}

\* C2: to a customer-role caller whose token carries no customer_id (absent or
\* null), the listings of buildings, elevators, contracts, quotations,
\* invoices, maintenance plans and maintenance jobs filter with the sentinel 0
\* and return the empty set, whatever rows the store holds.
C2_NoCustomerIdSeesNothing ==
    (/\ CustomerListing(ScopedListings)
     /\ last.user.customer_id \in {Null, Undefined}) =>
        /\ CustomerParam(last.user) = 0
        /\ last.rows = {}

\* the table is not empty and the caller without customer_id is answered []
C2_Witness ==
    /\ CustomerListing(ScopedListings)
    /\ last.user.customer_id \in {Null, Undefined}
    /\ TableOf(last.route) # {}
    /\ last.rows = {}

-----------------------------------------------------------------------------
(* Maintenance jobs: who reads and who writes them *)

JobsRegister ==
    /\ autoinc.users <= MaxUsers + 1
    /\ \E body \in [email : {"t@x"}, password : {"pw1"}, name : {"N"},
                    role : {"technician"}, customerId : {Undefined}]
                  \cup [email : {"c@x"}, password : {"pw1"}, name : {"N"},
                        role : {"customer"}, customerId : {1}] :
           Register(body)

JobsPostTechnicians ==
    /\ autoinc.technicians <= MaxJobs
    /\ \E h \in HeldHeaders : \E u \in 2..(MaxUsers + 1) :
           PostTechnicians(h, [user_id |-> u])

JobsPostBuildings ==
    /\ autoinc.buildings <= MaxRows
    /\ \E h \in HeldHeaders : \E c \in OwnerIds :
           PostBuildings(h, [customer_id |-> c, name |-> "Tower"])

JobsPostElevators ==
    \E h \in HeldHeaders :
        PostElevators(h, [id |-> "E1", name |-> "Lift A", building_id |-> 1,
                          state |-> "normal"])

JobsPostJobs ==
    /\ autoinc.maintenance_jobs <= MaxJobs
    /\ \E h \in HeldHeaders : \E t \in {Undefined} \cup (1..MaxJobs) :
           PostJobs(h, [elevator_id |-> "E1", job_type |-> "planned",
                        technician_id |-> t])

JobsPutJobs ==
    \E h \in HeldHeaders : \E id \in 1..MaxJobs :
        PutJobs(h, id, [elevator_id |-> "E1", job_type |-> "emergency",
                        technician_id |-> 1])

JobsGetJobs == \E h \in HeldHeaders : GetJobs(h)

NextJobs ==
    \/ JobsRegister
    \/ AdminLogin
    \/ ClientStore
    \/ JobsPostTechnicians
    \/ JobsPostBuildings
    \/ JobsPostElevators
    \/ JobsPostJobs
    \/ JobsPutJobs
    \/ JobsGetJobs

SpecJobs == Init /\ [][NextJobs]_vars

\* the job's technician_id refers to a Technician record with user_id = U
LinkedTo(job, U) ==
    \E tech \in db.technicians : tech.id = job.technician_id /\ tech.user_id = U

\* C8: to a technician-role caller with identity U, GET /maintenance/jobs
\* returns only jobs whose technician_id refers to the Technician record with
\* user_id = U; a job of another technician or of no technician never appears.
C8_TechnicianSeesOwnJobs ==
    (/\ last.route = "GET /maintenance/jobs"
     /\ last.status = 200
     /\ last.user.role = "technician") =>
        \A row \in last.rows : LinkedTo(row, last.user.id)

\* the technician is answered with its own job while the store also holds a
\* job that is not linked to it
C8_Witness ==
    /\ last.route = "GET /maintenance/jobs"
    /\ last.status = 200
    /\ last.user.role = "technician"
    /\ last.rows # {}
    /\ \E r \in db.maintenance_jobs : ~LinkedTo(r, last.user.id) /\ r \notin last.rows

\* the technician is answered [] while the store holds a job assigned to no
\* technician and a job assigned to another technician's record
C8_WitnessOthers ==
    /\ last.route = "GET /maintenance/jobs"
    /\ last.status = 200
    /\ last.user.role = "technician"
    /\ last.rows = {}
    /\ \E r \in db.maintenance_jobs : r.technician_id = Null
    /\ \E r \in db.maintenance_jobs :
           \E tech \in db.technicians :
               tech.id = r.technician_id /\ tech.user_id # last.user.id

\* the job's technician_id refers to a Technician record of another user
LinkedToOther(job, U) ==
    \E tech \in db.technicians : tech.id = job.technician_id /\ tech.user_id # U

\* the job's elevator belongs, via its building, to a customer other than C
ElevatorOfOtherCustomer(job, C) ==
    \E b \in BuildingsOfElevator(job.elevator_id) :
        TruthyNum(b.customer_id) /\ b.customer_id # C

\* a request of a caller of the given role changed maintenance_jobs in this step
JobWriteBy(role) ==
    /\ db'.maintenance_jobs # db.maintenance_jobs
    /\ last'.route \in {"PUT /maintenance/jobs/:id", "POST /maintenance/jobs"}
    /\ last'.user.role = role

\* C9: a technician-role caller U writes only maintenance jobs linked to its
\* own Technician record: a PUT on a job whose technician record belongs to
\* another user, or a POST creating a job assigned to another technician's
\* record, leaves maintenance_jobs unchanged.
C9_TechnicianWritesOwnJobs ==
    [][JobWriteBy("technician") =>
          /\ \A old \in db.maintenance_jobs \ db'.maintenance_jobs :
                 ~LinkedToOther(old, last'.user.id)
          /\ \A new \in db'.maintenance_jobs \ db.maintenance_jobs :
                 last'.route = "POST /maintenance/jobs" =>
                     ~LinkedToOther(new, last'.user.id)]_vars

\* C10: a customer-role caller with customer_id = C never changes a row that
\* is not transitively owned by C: a PUT /maintenance/jobs/:id on a job whose
\* elevator belongs, via its building, to another customer leaves that job
\* unchanged.
C10_CustomerWritesOwnRows ==
    [][(JobWriteBy("customer") /\ TruthyNum(last'.user.customer_id)) =>
          \A old \in db.maintenance_jobs \ db'.maintenance_jobs :
              ~ElevatorOfOtherCustomer(old, last'.user.customer_id)]_vars

-----------------------------------------------------------------------------
(* Administration: the eighteen routes that write customers, buildings,      *)
(* elevators, contracts, quotations and invoices, called by the admin and by *)
(* one registered identity                                                   *)

NextAdmin ==
    \/ /\ autoinc.users <= MaxRows + 1
       /\ \E role \in {"technician", "customer", "admin"} :
              Register([email |-> "a@x", password |-> "pw1", name |-> "N",
                        role |-> role, customerId |-> 1])
    \/ AdminLogin
    \/ ClientStore
    \/ /\ autoinc.customers <= MaxRows
       /\ \E h \in HeldHeaders :
              PostCustomers(h, [name |-> "ABC Co", business_type |-> "Commercial",
                                contact_email |-> ""])
    \/ \E h \in HeldHeaders :
           PutCustomers(h, 1, [name |-> "ABC Co", business_type |-> "Commercial",
                               contact_email |-> "a@x"])
    \/ \E h \in HeldHeaders : DeleteCustomers(h, 1)
    \/ /\ autoinc.buildings <= MaxRows
       /\ \E h \in HeldHeaders : PostBuildings(h, [customer_id |-> 1, name |-> "Tower"])
    \/ \E h \in HeldHeaders : PutBuildings(h, 1, [customer_id |-> 1, name |-> "Tower"])
    \/ \E h \in HeldHeaders : DeleteBuildings(h, 1)
    \/ /\ db.elevators = {}
       /\ \E h \in HeldHeaders :
              PostElevators(h, [id |-> "E1", name |-> "Lift A", building_id |-> 1,
                                state |-> "normal"])
    \/ \E h \in HeldHeaders :
           PutElevators(h, "E1", [name |-> "Lift A", building_id |-> 1,
                                  state |-> "in_maintenance"])
    \/ \E h \in HeldHeaders : DeleteElevators(h, "E1")
    \/ /\ autoinc.contracts <= MaxRows
       /\ \E h \in HeldHeaders :
              PostContracts(h, [customer_id |-> 1, contract_code |-> "CT-1",
                                 contract_type |-> "annual", start_date |-> "2025-01-01",
                                 end_date |-> "2025-12-31"])
    \/ \E h \in HeldHeaders :
           PutContracts(h, 1, [customer_id |-> 1, contract_code |-> "CT-1",
                                 contract_type |-> "annual", start_date |-> "2025-01-01",
                                 end_date |-> "2025-12-31"])
    \/ \E h \in HeldHeaders : DeleteContracts(h, 1)
    \/ /\ autoinc.quotations <= MaxRows
       /\ \E h \in HeldHeaders : PostQuotations(h, [customer_id |-> 1])
    \/ \E h \in HeldHeaders :
           PutQuotations(h, 1, [customer_id |-> 1, quotation_code |-> "Q-1"])
    \/ \E h \in HeldHeaders : DeleteQuotations(h, 1)
    \/ /\ autoinc.invoices <= MaxRows
       /\ \E h \in HeldHeaders : PostInvoices(h, [customer_id |-> 1])
    \/ \E h \in HeldHeaders :
           PutInvoices(h, 1, [customer_id |-> 1, invoice_code |-> "INV-1"])
    \/ \E h \in HeldHeaders : DeleteInvoices(h, 1)

SpecAdmin == Init /\ [][NextAdmin]_vars

\* C11: only an admin creates, updates or deletes customers, buildings,
\* elevators, contracts, quotations and invoices: a request whose caller is not
\* an admin (or is no one) leaves these six tables unchanged.
C11_OnlyAdminWrites ==
    [][last'.user.role # "admin" =>
          \A t \in {"customers", "buildings", "elevators", "contracts", "quotations",
                    "invoices"} : db'[t] = db[t]]_vars

\* an identity that is not an admin asked to delete or update a row that is
\* there, and was refused
C11_Witness ==
    /\ last.route \in {"DELETE /buildings/:id", "PUT /contracts/:id", "DELETE /customers/:id"}
    /\ last.user.role \in {"technician", "customer"}
    /\ last.status = 403
    /\ db.buildings # {} /\ db.contracts # {} /\ db.customers # {}

-----------------------------------------------------------------------------
(* Identities: registration, login and the role an identity keeps *)

\* bodies of POST /auth/register: a@x asks for technician or customer, b@x for
\* a role that registration does not grant
RegisterBodies ==
    [email : {"a@x"}, password : {"pw1"}, name : {"N"},
     role : {"technician", "customer"}, customerId : {Undefined}]
        \cup [email : {"b@x"}, password : {"pw1"}, name : {"N"},
              role : {"admin", "manager"}, customerId : {Undefined}]

\* bodies of POST /auth/login: c@x is no one's email, "bad" no one's password
LoginBodies == [email : {"a@x", "c@x", AdminRow.email}, password : {"pw1", "bad", "adminpass"}]

NextIdentity ==
    \/ \E body \in RegisterBodies :
           /\ autoinc.users <= MaxUsers + 1 \/ UsersByEmail(body.email) # {}
           /\ Register(body)
    \/ \E body \in LoginBodies : Login(body)
    \/ ClientStore
    \/ \E h \in HeldHeaders :
           ChangePassword(h, [currentPassword |-> "pw1", newPassword |-> "longpass2"])
    \/ /\ autoinc.technician_requests <= MaxRows
       /\ \E h \in HeldHeaders :
              PostTechnicianRequests(h, [phone |-> "08", specialty |-> "lift",
                                         address |-> "a", date_of_birth |-> "2000-01-01",
                                         experience |-> "5y", education |-> "BEng"])
    \/ \E h \in HeldHeaders : \E status \in {"approved", "rejected"} :
           PutTechnicianRequests(h, 1, [status |-> status])

SpecIdentity == Init /\ [][NextIdentity]_vars

\* C12: POST /auth/register with an email that already belongs to an identity
\* returns 409, issues no token and leaves the users table as it was.
C12_DuplicateEmail ==
    [][\A body \in RegisterBodies :
          (Register(body) /\ \E u \in db.users : u.email = body.email) =>
              /\ last'.status = 409
              /\ last'.token = EmptyToken
              /\ db'.users = db.users]_vars

\* a second registration of a@x was answered 409 while a@x is stored once
C12_Witness ==
    /\ last.route = "POST /auth/register"
    /\ last.status = 409
    /\ Cardinality({u \in db.users : u.email = "a@x"}) = 1

\* C13: POST /auth/login with the email of an identity and a password that
\* does not match its hash returns 401 and issues no token; an unknown email
\* gets the same 401; the store is unchanged in both cases.
C13_BadCredentials ==
    [][\A body \in LoginBodies :
          (/\ Login(body)
           /\ \A u \in db.users :
                  u.email = body.email => u.password_hash # bcryptHash(body.password)) =>
              /\ last'.status = 401
              /\ last'.message = "Invalid credentials"
              /\ last'.token = EmptyToken
              /\ db' = db /\ autoinc' = autoinc]_vars

\* a@x is registered with another password and its login was answered 401
C13_Witness ==
    /\ last.route = "POST /auth/login"
    /\ last.status = 401
    /\ \E u \in db.users : u.email = "a@x" /\ u.password_hash # bcryptHash("bad")
    /\ last.at = now

\* C14: register stores role technician if and only if the request asks for
\* "technician" and customer for every other value, and no operation changes
\* the role of an identity that exists.
C14_RoleFixed ==
    [][/\ \A u \in db.users : \E v \in db'.users : v.id = u.id /\ v.role = u.role
       /\ \A v \in db'.users :
              (\A u \in db.users : u.id # v.id) =>
                  \E body \in RegisterBodies :
                      /\ Register(body)
                      /\ v.role = IF body.role = "technician"
                                  THEN "technician" ELSE "customer"]_vars

\* b@x, who asked for admin or manager, is stored as a customer and is still
\* one after changing its password
C14_Witness ==
    /\ last.route = "POST /auth/change-password"
    /\ last.status = 200
    /\ last.user.email = "b@x"
    /\ \E u \in db.users :
           u.email = "b@x" /\ u.role = "customer" /\ u.password_hash = bcryptHash("longpass2")

-----------------------------------------------------------------------------
(* Technician requests: submission by technicians, approval and rejection by *)
(* the admin                                                                 *)

RequestBody ==
    [phone |-> "08", specialty |-> "lift", address |-> "a",
     date_of_birth |-> "2000-01-01", experience |-> "5y", education |-> "BEng"]

NextRequests ==
    \/ /\ autoinc.users <= MaxUsers + 1
       /\ \E email \in {"a@x", "b@x"} :
              Register([email |-> email, password |-> "pw1", name |-> "N",
                        role |-> "technician", customerId |-> Undefined])
    \/ AdminLogin
    \/ ClientStore
    \/ Tick
    \/ /\ autoinc.technician_requests <= MaxJobs
       /\ \E h \in HeldHeaders : PostTechnicianRequests(h, RequestBody)
    \/ \E h \in HeldHeaders : \E id \in 1..MaxJobs : \E status \in {"approved", "rejected"} :
           PutTechnicianRequests(h, id, [status |-> status])
    \/ /\ autoinc.technicians <= MaxRows
       /\ \E h \in HeldHeaders : PostTechnicians(h, [user_id |-> 2])

SpecRequests == Init /\ [][NextRequests]_vars

\* the request of this step is the given route, and its handler ran
Handled(route) == last' # last /\ last'.route = route /\ last'.ran

\* C16: POST /technician-requests by an identity that already has a pending
\* request returns 409 and inserts no technician_requests row.
C16_SecondSubmission ==
    [][(/\ Handled("POST /technician-requests")
        /\ \E r \in db.technician_requests :
               r.user_id = last'.user.id /\ r.status = "pending") =>
           /\ last'.status = 409
           /\ db'.technician_requests = db.technician_requests]_vars

\* the identity's second submission was answered 409 and its pending request
\* is the only request it has
C16_Witness ==
    /\ last.route = "POST /technician-requests"
    /\ last.status = 409
    /\ Cardinality({r \in db.technician_requests : r.user_id = last.user.id}) = 1

\* C18: the status of a technician request changes only from pending to
\* approved or from pending to rejected: a request that is approved or
\* rejected keeps its status under every later PUT.
C18_StatusOnlyLeavesPending ==
    [][\A r \in db.technician_requests : \A q \in db'.technician_requests :
          (q.id = r.id /\ q.status # r.status) =>
              (r.status = "pending" /\ q.status \in {"approved", "rejected"})]_vars

\* C19: approving a request whose identity already has a Technician record
\* sets the request's status to approved and creates no second Technician
\* row, so a second approval leaves the technicians table of the first.
C19_ApprovalIdempotent ==
    [][(/\ Handled("PUT /technician-requests/:id")
        /\ last'.status = 200
        /\ \E q \in last'.rows :
               /\ q.status = "approved"
               /\ \E t \in db.technicians : t.user_id = q.user_id) =>
           /\ db'.technicians = db.technicians
           /\ \A q \in last'.rows : q \in db'.technician_requests]_vars

\* a request was approved a second time: its identity has one Technician row
C19_Witness ==
    /\ last.route = "PUT /technician-requests/:id"
    /\ last.status = 200
    /\ last.queries = 4
    /\ \E q \in last.rows :
           /\ q.status = "approved"
           /\ q.updated_at > 0
           /\ Cardinality({t \in db.technicians : t.user_id = q.user_id}) = 1
           /\ autoinc.technicians = 2

\* C20: rejecting a technician request changes only that request's status and
\* updated_at: the technicians table and every other row of
\* technician_requests are unchanged.
C20_RejectionFrame ==
    [][(/\ Handled("PUT /technician-requests/:id")
        /\ last'.status = 200
        /\ \E q \in last'.rows : q.status = "rejected") =>
           /\ db'.technicians = db.technicians
           /\ autoinc' = autoinc
           /\ \A t \in DOMAIN db : t # "technician_requests" => db'[t] = db[t]
           /\ \E r \in db.technician_requests :
                  /\ db'.technician_requests =
                         (db.technician_requests \ {r}) \cup
                             {[r EXCEPT !.status = "rejected", !.updated_at = now]}
                  /\ last'.rows = {[r EXCEPT !.status = "rejected", !.updated_at = now]}]_vars

\* a pending request was rejected, hours after it was made, while another
\* request is stored and its identity has no Technician row
C20_Witness ==
    /\ last.route = "PUT /technician-requests/:id"
    /\ last.status = 200
    /\ \E q \in last.rows :
           /\ q.status = "rejected"
           /\ q.updated_at > 0
           /\ \A t \in db.technicians : t.user_id # q.user_id
           /\ \E r \in db.technician_requests : r.id # q.id

------------------------------------------------------------------------------
(* Submissions handled at the same time: the handler of POST                 *)
(* /technician-requests gives way to other requests at each await, between   *)
(* its SELECT of the pending requests and its INSERT                         *)

\* the handler up to its first await: the guards, the required fields, and the
\* SELECT of the caller's pending requests, whose result it keeps
SubmitSelect(h, body, slot) ==
    LET route == "POST /technician-requests"
        g == RouteGuard(route, h)
    IN  /\ UNCHANGED <<now, tokens>>
        /\ IF ~g.ok THEN Reject(route, h, g) /\ UNCHANGED awaiting
           ELSE IF \/ ~TruthyStr(body.phone) \/ ~TruthyStr(body.specialty)
                   \/ ~TruthyStr(body.address) \/ ~TruthyStr(body.date_of_birth)
                   \/ ~TruthyStr(body.experience) \/ ~TruthyStr(body.education)
           THEN /\ Answer(route, h, g.user, 0, 400, "Missing required fields", {})
                /\ UNCHANGED awaiting
           ELSE /\ awaiting' = awaiting \cup
                        {[slot |-> slot, route |-> route, hdr |-> h, user |-> g.user,
                          existingRequests |-> PendingRequestsOf(g.user.id)]}
                /\ UNCHANGED <<storeVars, last>>

\* the handler from its first await on: 409 if the SELECT had found a pending
\* request, the INSERT otherwise
SubmitInsert(w) ==
    LET route == "POST /technician-requests"
        row == [id |-> autoinc.technician_requests, user_id |-> w.user.id,
                status |-> "pending", updated_at |-> now]
    IN  /\ awaiting' = awaiting \ {w}
        /\ UNCHANGED <<now, tokens>>
        /\ IF w.existingRequests # {}
           THEN Answer(route, w.hdr, w.user, 1, 409,
                       "You already have a pending request. Please wait for admin approval.", {})
           ELSE /\ db' = [db EXCEPT !.technician_requests = @ \cup {row}]
                /\ autoinc' = [autoinc EXCEPT !.technician_requests = @ + 1]
                /\ Written(route, w.hdr, w.user, 3, 201, "", {row})

\* PUT /elevators/:id up to its first await: the guards, the required fields
\* and SELECT state FROM elevators WHERE id = ?
PutElevatorsSelect(h, id, body, slot) ==
    LET route == "PUT /elevators/:id"
        g == RouteGuard(route, h)
        currentRows == {e \in db.elevators : e.id = id}
    IN  /\ UNCHANGED <<now, tokens>>
        /\ IF ~g.ok THEN Reject(route, h, g) /\ UNCHANGED awaiting
           ELSE IF ~TruthyStr(body.name) \/ ~TruthyNum(body.building_id)
           THEN /\ Answer(route, h, g.user, 0, 400, "name and building_id are required", {})
                /\ UNCHANGED awaiting
           ELSE IF currentRows = {}
           THEN /\ Answer(route, h, g.user, 1, 404, "Elevator not found", {})
                /\ UNCHANGED awaiting
           ELSE /\ \E current \in currentRows :
                       awaiting' = awaiting \cup
                           {[slot |-> slot, route |-> route, hdr |-> h, user |-> g.user,
                             id |-> id, body |-> body, prevState |-> current.state,
                             pc |-> "update", rows |-> {}]}
                /\ UNCHANGED <<storeVars, last>>

\* PUT /elevators/:id from one await to the next: the UPDATE, the SELECT of
\* the updated row, the DELETE of the stale notifications, the INSERT
PutElevatorsResume(w) ==
    LET safeState == SafeState(w.body.state)
        isToFault == IsToFault(w.prevState, safeState)
        isToNormal == IsToNormal(w.prevState, safeState)
        found == {e \in db.elevators : e.id = w.id}
        updated == {[e EXCEPT !.name = w.body.name, !.building_id = w.body.building_id,
                              !.state = safeState] : e \in found}
        Suspend(pc, rows) ==
            /\ awaiting' = (awaiting \ {w}) \cup {[w EXCEPT !.pc = pc, !.rows = rows]}
            /\ UNCHANGED last
    IN  /\ UNCHANGED <<now, tokens>>
        /\ CASE w.pc = "update" ->
                  IF found = {}
                  THEN /\ Answer(w.route, w.hdr, w.user, 2, 404, "Elevator not found", {})
                       /\ awaiting' = awaiting \ {w}
                  ELSE /\ db' = [db EXCEPT !.elevators = (@ \ found) \cup updated]
                       /\ UNCHANGED autoinc
                       /\ Suspend("select", {})
             [] w.pc = "select" ->
                  /\ UNCHANGED storeVars
                  /\ IF ~(isToFault \/ isToNormal)
                     THEN /\ Respond(w.route, w.hdr, w.user, TRUE, 3, 200, "", found, EmptyToken)
                          /\ awaiting' = awaiting \ {w}
                     ELSE IF found = {}
                     THEN /\ Respond(w.route, w.hdr, w.user, TRUE, 3, 500,
                                     "Internal server error", {}, EmptyToken)
                          /\ awaiting' = awaiting \ {w}
                     ELSE Suspend("delete", found)
             [] w.pc = "delete" ->
                  /\ db' = [db EXCEPT !.notifications =
                                @ \ StaleNotifications(w.user.id, w.id)]
                  /\ UNCHANGED autoinc
                  /\ Suspend("insert", w.rows)
             [] w.pc = "insert" ->
                  /\ db' = [db EXCEPT !.notifications =
                                @ \cup {StateNotification(w.user.id, w.id, isToFault)}]
                  /\ autoinc' = [autoinc EXCEPT !.notifications = @ + 1]
                  /\ Written(w.route, w.hdr, w.user, 5, 200, "", w.rows)
                  /\ awaiting' = awaiting \ {w}

\* POST /auth/register up to its first await: the required fields and SELECT
\* id FROM users WHERE email = ?
RegisterSelect(body, slot) ==
    LET route == "POST /auth/register" IN
    /\ UNCHANGED <<now, tokens, storeVars>>
    /\ IF ~TruthyStr(body.email) \/ ~TruthyStr(body.password) \/ ~TruthyStr(body.name)
       THEN /\ Respond(route, NoHeader, NoUser, TRUE, 0, 400,
                       "email, password, name are required", {}, EmptyToken)
            /\ UNCHANGED awaiting
       ELSE IF UsersByEmail(body.email) # {}
       THEN /\ Respond(route, NoHeader, NoUser, TRUE, 1, 409,
                       "Email already in use", {}, EmptyToken)
            /\ UNCHANGED awaiting
       ELSE /\ awaiting' = awaiting \cup {[slot |-> slot, route |-> route, body |-> body]}
            /\ UNCHANGED last

\* POST /auth/register after the SELECT: bcrypt.hash, the INSERT and the token
RegisterInsert(w) ==
    LET validRole == ValidRole(w.body.role)
        finalCustomerId == IF validRole = "technician" THEN Null
                           ELSE OrElse(w.body.customerId, Null)
        row == [id |-> autoinc.users, email |-> w.body.email,
                password_hash |-> bcryptHash(w.body.password),
                name |-> w.body.name, role |-> validRole,
                customer_id |-> finalCustomerId]
        userPayload == [id |-> row.id, email |-> row.email, name |-> row.name,
                        role |-> validRole, customer_id |-> finalCustomerId]
    IN  /\ awaiting' = awaiting \ {w}
        /\ UNCHANGED <<now, tokens>>
        /\ db' = [db EXCEPT !.users = @ \cup {row}]
        /\ autoinc' = [autoinc EXCEPT !.users = @ + 1]
        /\ Respond(w.route, NoHeader, NoUser, TRUE, 2, 201, "",
                   {userPayload}, signAccessToken(userPayload))

\* PUT /technician-requests/:id up to its first await: the guards, the status
\* and SELECT * FROM technician_requests WHERE id = ?
PutTechnicianRequestsSelect(h, id, body, slot) ==
    LET route == "PUT /technician-requests/:id"
        g == RouteGuard(route, h)
        requests == RequestsById(id)
    IN  /\ UNCHANGED <<now, tokens>>
        /\ IF ~g.ok THEN Reject(route, h, g) /\ UNCHANGED awaiting
           ELSE IF body.status \notin {"approved", "rejected"}
           THEN /\ Answer(route, h, g.user, 0, 400,
                          "Status must be 'approved' or 'rejected'", {})
                /\ UNCHANGED awaiting
           ELSE IF requests = {}
           THEN /\ Answer(route, h, g.user, 1, 404, "Request not found", {})
                /\ UNCHANGED awaiting
           ELSE /\ \E request \in requests :
                       awaiting' = awaiting \cup
                           {[slot |-> slot, route |-> route, hdr |-> h, user |-> g.user,
                             id |-> id, status |-> body.status, request |-> request,
                             pc |-> IF body.status = "approved" THEN "techs" ELSE "update",
                             existingTechs |-> {}, queries |-> 1]}
                /\ UNCHANGED <<storeVars, last>>

\* PUT /technician-requests/:id between its awaits: the SELECT of the
\* identity's technicians, the INSERT, the UPDATE of the status, the SELECT of
\* the updated request
PutTechnicianRequestsResume(w) ==
    LET Suspend(pc, techs) ==
            /\ awaiting' = (awaiting \ {w}) \cup
                   {[w EXCEPT !.pc = pc, !.existingTechs = techs, !.queries = @ + 1]}
            /\ UNCHANGED last
    IN  /\ UNCHANGED <<now, tokens>>
        /\ CASE w.pc = "techs" ->
                  LET existingTechs == TechniciansOf(w.request.user_id) IN
                  /\ UNCHANGED storeVars
                  /\ Suspend(IF existingTechs = {} THEN "insert" ELSE "update", existingTechs)
             [] w.pc = "insert" ->
                  /\ db' = [db EXCEPT !.technicians =
                                @ \cup {[id |-> autoinc.technicians,
                                         user_id |-> w.request.user_id]}]
                  /\ autoinc' = [autoinc EXCEPT !.technicians = @ + 1]
                  /\ Suspend("update", w.existingTechs)
             [] w.pc = "update" ->
                  /\ db' = [db EXCEPT !.technician_requests =
                                {IF r.id = w.id
                                 THEN [r EXCEPT !.status = w.status, !.updated_at = now]
                                 ELSE r : r \in @}]
                  /\ UNCHANGED autoinc
                  /\ Suspend("select", w.existingTechs)
             [] w.pc = "select" ->
                  /\ UNCHANGED storeVars
                  /\ Respond(w.route, w.hdr, w.user, TRUE, w.queries + 1, 200, "",
                             RequestsById(w.id), EmptyToken)
                  /\ awaiting' = awaiting \ {w}

\* registrations, submissions and approvals handled at the same time
NextRace ==
    \/ /\ Cardinality(awaiting) < MaxInFlight
       /\ autoinc.users + Cardinality(awaiting) <= MaxUsers + 1
       /\ \E slot \in 1..MaxInFlight : \E name \in {"N", ""} :
              /\ \A w \in awaiting : w.slot # slot
              /\ RegisterSelect([email |-> "a@x", password |-> "pw1", name |-> name,
                                 role |-> "technician", customerId |-> Undefined], slot)
    \/ \E w \in awaiting : w.route = "POST /auth/register" /\ RegisterInsert(w)
    \/ AdminLogin
    \/ ClientStore
    \/ /\ Cardinality(awaiting) < MaxInFlight
       /\ autoinc.technician_requests + Cardinality(awaiting) <= MaxJobs
       /\ \E slot \in 1..MaxInFlight : \E h \in HeldHeaders \cup {NoHeader} :
              /\ \A w \in awaiting : w.slot # slot
              /\ SubmitSelect(h, RequestBody, slot)
    \/ \E w \in awaiting : w.route = "POST /technician-requests" /\ SubmitInsert(w)
    \/ /\ Cardinality(awaiting) < MaxInFlight
       /\ autoinc.technicians + Cardinality(awaiting) <= MaxJobs
       /\ \E slot \in 1..MaxInFlight : \E h \in HeldHeaders : \E id \in 1..MaxJobs :
          \E status \in {"approved", "rejected", "pending"} :
              /\ \A w \in awaiting : w.slot # slot
              /\ PutTechnicianRequestsSelect(h, id, [status |-> status], slot)
    \/ \E w \in awaiting :
           w.route = "PUT /technician-requests/:id" /\ PutTechnicianRequestsResume(w)

SpecRace == Init /\ [][NextRace]_vars

\* C17: under any interleaving of submissions, approvals and rejections, each
\* identity has at most one technician request with status pending.
C17_AtMostOnePending ==
    \A r, q \in db.technician_requests :
        (r.user_id = q.user_id /\ r.status = "pending" /\ q.status = "pending") => r.id = q.id

------------------------------------------------------------------------------
(* Elevators: their state and the notifications of a change between normal   *)
(* and fault                                                                 *)

\* "E1" is a prefix of "E10"; "E2" is never created
ElevatorIds == {"E1", "E10", "E2"}

\* the states a request asks for: three of the enum, one outside it, and ""
\* for a body without state
ElevatorBodies ==
    [name : {"Lift A"}, building_id : {1},
     state : {"normal", "fault", "in_maintenance", "broken", ""}]
        \cup {[name |-> "", building_id |-> 1, state |-> "normal"]}

\* the admin, a customer and a caller without token send the requests
NextElevators ==
    \/ /\ autoinc.users <= MaxRows + 1 \/ UsersByEmail("c@x") # {}
       /\ Register([email |-> "c@x", password |-> "pw1", name |-> "N",
                    role |-> "customer", customerId |-> Undefined])
    \/ AdminLogin
    \/ ClientStore
    \/ \E h \in HeldHeaders \cup {NoHeader} : \E id \in ElevatorIds \ {"E2"} :
       \E body \in ElevatorBodies :
           PostElevators(h, [id |-> id, name |-> body.name,
                             building_id |-> body.building_id, state |-> body.state])
    \/ /\ autoinc.notifications <= MaxNotifications
       /\ \E h \in HeldHeaders \cup {NoHeader} : \E id \in ElevatorIds :
          \E body \in ElevatorBodies :
              PutElevators(h, id, body)
    \/ \E h \in HeldHeaders : \E id \in ElevatorIds : DeleteElevators(h, id)

SpecElevators == Init /\ [][NextElevators]_vars

\* the notification is a state notification about exactly this elevator
TaggedTo(n, elevator_id) ==
    n.type = "elevator_state" /\ Like(n.title, TitlePrefix \o elevator_id \o " ")

\* the update moves the elevator from normal to fault or from fault to normal
NormalFaultChange(id) ==
    \E e \in db.elevators : \E f \in db'.elevators :
        e.id = id /\ f.id = id /\ {e.state, f.state} = {"normal", "fault"}

\* C21: an update by user U that changes the state from normal to fault or
\* from fault to normal deletes U's prior state notifications tagged to the
\* elevator and inserts exactly one notification, of U; any other update
\* inserts no notification and deletes none.
C21_TransitionNotifies ==
    [][(last' # last /\ last'.route = "PUT /elevators/:id" /\ last'.status = 200) =>
       \A e \in last'.rows : \A body \in ElevatorBodies :
          PutElevators(last'.hdr, e.id, body) =>
              IF NormalFaultChange(e.id)
              THEN /\ \A n \in db.notifications :
                          (n.user_id = last'.user.id /\ TaggedTo(n, e.id)) =>
                              n \notin db'.notifications
                   /\ Cardinality(db'.notifications \ db.notifications) = 1
                   /\ \A n \in db'.notifications \ db.notifications :
                          n.user_id = last'.user.id /\ TaggedTo(n, e.id)
              ELSE db'.notifications = db.notifications]_vars

\* a second change of E1 was answered: its first notification is gone and the
\* second is the only one about E1
C21_Witness ==
    /\ last.route = "PUT /elevators/:id" /\ last.status = 200 /\ last.queries = 5
    /\ \E n \in db.notifications : n.id = 2 /\ TaggedTo(n, "E1")
    /\ Cardinality({n \in db.notifications : TaggedTo(n, "E1")}) = 1

\* C24: every error outcome (400, 401, 403, 404, 409, 500) carries a message
\* and nothing else, and a store failure inside a handler (here the duplicate
\* primary key of POST /elevators) is answered 500 "Internal server error",
\* without detail and with the store as it was.
C24_ErrorsCarryOnlyMessage ==
    [][/\ last'.status \in {400, 401, 403, 404, 409, 500} =>
              last'.message # "" /\ last'.rows = {} /\ last'.token = EmptyToken
       /\ (last' # last /\ last'.route = "POST /elevators" /\ last'.ran) =>
              \A e \in db.elevators : \A body \in ElevatorBodies :
                  (/\ PostElevators(last'.hdr, [id |-> e.id, name |-> body.name,
                                                building_id |-> body.building_id,
                                                state |-> body.state])
                   /\ body.name # "") =>
                      /\ last'.status = 500 /\ last'.message = "Internal server error"
                      /\ db' = db]_vars

\* a second POST /elevators of E1 was answered 500
C24_Witness ==
    /\ last.route = "POST /elevators" /\ last.status = 500
    /\ \E e \in db.elevators : e.id = "E1"

\* C28: the supersession for elevator E deletes only the acting user's state
\* notifications tagged to E: the notifications of other users and those
\* tagged to another elevator, one whose id starts with E's id included, stay.
C28_SupersessionFrame ==
    [][(last' # last /\ last'.route = "PUT /elevators/:id" /\ last'.status = 200) =>
       \A e \in last'.rows : \A n \in db.notifications :
           (n.user_id # last'.user.id \/ ~TaggedTo(n, e.id)) => n \in db'.notifications]_vars

\* C30: create and update store the requested state when it is of the enum
\* and normal otherwise, so every elevator's state is of the enum; an update
\* without state of an elevator in fault stores normal and inserts the
\* notification of a change from fault to normal.
C30_StateInEnum ==
    [][/\ \A e \in db'.elevators : Includes(AllowedStates, e.state)
       /\ (last' # last /\ last'.route = "POST /elevators" /\ last'.status = 201) =>
              \A e \in last'.rows : \A body \in ElevatorBodies :
                  PostElevators(last'.hdr, [id |-> e.id, name |-> body.name,
                                            building_id |-> body.building_id,
                                            state |-> body.state]) =>
                      e.state = IF Includes(AllowedStates, body.state)
                                THEN body.state ELSE "normal"
       /\ (last' # last /\ last'.route = "PUT /elevators/:id" /\ last'.status = 200) =>
              \A e \in last'.rows : \A body \in ElevatorBodies :
                  PutElevators(last'.hdr, e.id, body) =>
                      /\ e.state = IF Includes(AllowedStates, body.state)
                                   THEN body.state ELSE "normal"
                      /\ e \in db'.elevators
                      /\ (body.state = "" /\ \E f \in db.elevators :
                                                f.id = e.id /\ f.state = "fault") =>
                             \E n \in db'.notifications \ db.notifications :
                                 n.title = TitlePrefix \o e.id \o " back to normal"]_vars

\* an elevator created in fault is normal after an update, and the
\* notification of its return to normal is stored
C30_Witness ==
    /\ last.route = "PUT /elevators/:id" /\ last.status = 200
    /\ \E e \in last.rows : e.id = "E10" /\ e.state = "normal"
    /\ \E n \in db.notifications : n.id = 1 /\ n.title = TitlePrefix \o "E10 back to normal"

\* C25: the approval's check and insert are not atomic: an approval inserts a
\* technician record exactly when its own earlier read found none for the
\* identity, whatever the table holds at the time of the insert, so two
\* approvals that both read before either inserts leave two records for one
\* identity.
C25_ApprovalNotAtomic ==
    [][\A w \in awaiting :
          (w.route = "PUT /technician-requests/:id" /\ PutTechnicianRequestsResume(w)) =>
              /\ w.pc = "techs" =>
                     \A v \in awaiting' \ awaiting :
                         /\ v.existingTechs =
                                {t \in db.technicians : t.user_id = w.request.user_id}
                         /\ v.pc = IF v.existingTechs = {} THEN "insert" ELSE "update"
              /\ w.pc = "insert" =>
                     \E t \in db'.technicians \ db.technicians :
                         t.user_id = w.request.user_id]_vars

\* both approvals were answered and the identity of the request has two
\* technician records
C25_Witness ==
    /\ last.route = "PUT /technician-requests/:id" /\ last.status = 200
    /\ awaiting = {}
    /\ \E r \in db.technician_requests : \E s, t \in db.technicians :
           r.status = "approved" /\ s.user_id = r.user_id /\ t.user_id = r.user_id
               /\ s.id # t.id

\* C27: no two identities share an email, under any sequence and any
\* interleaving of registrations.
C27_EmailUnique ==
    \A u, v \in db.users : u.email = v.email => u.id = v.id

\* C23: technician records are linked 1:1 to identities: no identity has
\* more than one technician record, and the user_id of every technician record
\* is an identity of role technician.
\* (Stated of the records whose user_id is a registered identity.)
C23_TechnicianOneToOne ==
    \A t \in db.technicians : \A u \in db.users :
        u.id = t.user_id =>
            /\ \A s \in db.technicians : s.user_id = t.user_id => s.id = t.id
            /\ u.role = "technician"

\* C26: every request that passes the access guard receives a response from
\* its handler, on the success path as on the error paths; a PUT
\* /maintenance/jobs/:id that updates an existing job is answered.
C26_EveryRequestAnswered ==
    last.ran => last.status # 0

\* C29: a ticket created by a customer-role caller with customer_id = C
\* refers to an elevator owned, via its building, by C: POST /tickets with the
\* elevatorId of another customer's elevator creates no ticket.
C29_TicketOnOwnElevator ==
    [][(last' # last /\ last'.route = "POST /tickets" /\ last'.user.role = "customer"
          /\ TruthyNum(last'.user.customer_id)) =>
           \A t \in db'.tickets \ db.tickets :
               ~ElevatorOfOtherCustomer(t, last'.user.customer_id)]_vars

\* updates of one elevator handled at the same time
NextFlap ==
    \/ AdminLogin
    \/ ClientStore
    \/ \E h \in HeldHeaders : \E state \in {"normal", "fault"} :
           PostElevators(h, [id |-> "E1", name |-> "Lift A", building_id |-> 1,
                             state |-> state])
    \/ \E h \in HeldHeaders : DeleteElevators(h, "E1")
    \/ /\ Cardinality(awaiting) < MaxInFlight
       /\ autoinc.notifications + Cardinality(awaiting) <= MaxNotifications
       /\ \E slot \in 1..MaxInFlight : \E h \in HeldHeaders \cup {NoHeader} :
          \E state \in {"normal", "fault", "in_maintenance"} :
              /\ \A w \in awaiting : w.slot # slot
              /\ PutElevatorsSelect(h, "E1", [name |-> "Lift A", building_id |-> 1,
                                              state |-> state], slot)
    \/ \E w \in awaiting : w.route = "PUT /elevators/:id" /\ PutElevatorsResume(w)

SpecFlap == Init /\ [][NextFlap]_vars

\* C22: after any sequence and any interleaving of updates by the same user,
\* at most one state notification tagged to a given elevator exists for that
\* user.
C22_OneNotificationPerElevator ==
    \A n, m \in db.notifications : \A id \in ElevatorIds :
        (n.user_id = m.user_id /\ TaggedTo(n, id) /\ TaggedTo(m, id)) => n.id = m.id

-----------------------------------------------------------------------------
(* Token lifetime: one identity, its tokens, and the clock *)

TokRegister ==
    /\ autoinc.users <= MaxUsers + 1
    /\ \E body \in [email : {"a@x", "b@x"}, password : {"pw1"}, name : {"N"},
                    role : {"customer"}, customerId : {1}] : Register(body)

TokLogin == \E body \in [email : {"a@x"}, password : {"pw1"}] : Login(body)

TokChangePassword ==
    \E t \in tokens :
        \E body \in [currentPassword : {"pw1"}, newPassword : {"pw1", "longpass2"}] :
            ChangePassword(Bearer(t), body)

NextToken ==
    \/ TokRegister
    \/ TokLogin
    \/ DoMe
    \/ TokChangePassword
    \/ ClientStore
    \/ Tick

SpecToken == Init /\ [][NextToken]_vars

\* the answers of authRequired
GuardRefused == last.status = 401 /\ last.message \in {"Missing token", "Invalid or expired token"}

\* C7: a request bearing a token that register or login issued, made before
\* the token's expiry, passes authRequired with the token's claims, whatever
\* happened since the token was issued; a request bearing a token that is
\* expired, malformed or signed with another key is answered 401 "Invalid or
\* expired token" and its handler does not run.
C7_TokenValidUntilExpiry ==
    (last.route \notin PublicRoutes /\ HasToken(last.hdr)) =>
        IF last.hdr.cred \in tokens /\ last.at < last.hdr.cred.exp
        THEN ~GuardRefused /\ last.user = last.hdr.cred.payload /\ last.ran
        ELSE /\ last.status = 401
             /\ last.message = "Invalid or expired token"
             /\ ~last.ran

\* a token issued while the password was "pw1" is accepted, hours later, after
\* the identity changed its password
C7_Witness ==
    /\ last.route = "GET /auth/me"
    /\ last.status = 200
    /\ last.hdr.cred \in tokens
    /\ last.at >= TickHours
    /\ \E u \in db.users : u.id = last.user.id /\ u.password_hash = bcryptHash("longpass2")

\* an expired token is refused
C7_WitnessExpired ==
    /\ last.route = "GET /auth/me"
    /\ last.hdr.cred \in tokens
    /\ last.at >= last.hdr.cred.exp
    /\ last.status = 401

====
